---- MODULE Spec2Model ----
(***************************************************************************)
(* Model of the kademlia connectivity manager (package kademlia, type Kad) *)
(* of stevanlohja/bee: the known and connected peer sets, the neighborhood *)
(* depth, the manage loop and the public operations AddPeer, Disconnected, *)
(* Remove, NeighborhoodDepth and Close, together with the driver of        *)
(* TestNeighborhoodDepth.                                                   *)
(***************************************************************************)
EXTENDS Integers, Sequences, FiniteSets, TLC

(* ---------------------------------------------------------------------- *)
(* Program constants                                                       *)
(* ---------------------------------------------------------------------- *)
maxBins == 16

nnLowWatermark == 2

\* width of a modelled overlay address, in bits (one more than maxBins so that
\* two different addresses can agree beyond the deepest bin)
AddrBits == 17

\* the node's own overlay address (base): bit pattern 1 0101 0101 0101 0101
Base == 87381

Bins == 0 .. (maxBins - 1)

NoAddr == 0 - 1

(* ---------------------------------------------------------------------- *)
(* Address and proximity metric                                            *)
(* ---------------------------------------------------------------------- *)
RECURSIVE Pow2(_)
Pow2(n) == IF n = 0 THEN 1 ELSE 2 * Pow2(n - 1)

\* bit i of address a, bit 0 being the most significant one
Bit(a, i) == (a \div Pow2(AddrBits - 1 - i)) % 2

RECURSIVE LeadingShared(_, _, _)
LeadingShared(a, b, i) ==
  IF i = AddrBits \/ Bit(a, i) # Bit(b, i) THEN i ELSE LeadingShared(a, b, i + 1)

\* swarm.Proximity: the number of leading bits a and b share, capped to the
\* deepest bin
Proximity(a, b) ==
  LET n == LeadingShared(a, b, 0)
  IN IF n > maxBins - 1 THEN maxBins - 1 ELSE n

\* test.RandomAddressAt(base, po): an address that agrees with base on the
\* first po bits and differs at bit po; salt stands for the random tail
RandomAddressAt(b, po, salt) ==
  LET w == Pow2(AddrBits - 1 - po)
  IN ((b \div (2 * w)) * (2 * w)) + ((1 - Bit(b, po)) * w) + (salt % w)

(* ---------------------------------------------------------------------- *)
(* pslice.PSlice: peers grouped by bin, insertion order within a bin       *)
(* ---------------------------------------------------------------------- *)
PSliceNew == [b \in Bins |-> << >>]

InSeq(q, x) == \E i \in 1 .. Len(q) : q[i] = x

PSliceAdd(s, addr, po) == [s EXCEPT ![po] = Append(@, addr)]

PSliceRemove(s, addr, po) ==
  [s EXCEPT ![po] = SelectSeq(@, LAMBDA x : x # addr)]

PSliceExists(s, addr) == \E b \in Bins : InSeq(s[b], addr)

RECURSIVE PSliceLengthFrom(_, _)
PSliceLengthFrom(s, b) ==
  IF b = maxBins THEN 0 ELSE Len(s[b]) + PSliceLengthFrom(s, b + 1)

PSliceLength(s) == PSliceLengthFrom(s, 0)

\* the peers of one bin as <<addr, po>> pairs
BinPairs(s, b) == [i \in 1 .. Len(s[b]) |-> <<s[b][i], b>>]

\* EachBin visits the peers from the deepest bin to the shallowest
RECURSIVE EachBinFrom(_, _)
EachBinFrom(s, b) ==
  IF b < 0 THEN << >> ELSE BinPairs(s, b) \o EachBinFrom(s, b - 1)

EachBin(s) == EachBinFrom(s, maxBins - 1)

\* EachBinRev visits the peers from the shallowest bin to the deepest
RECURSIVE EachBinRevFrom(_, _)
EachBinRevFrom(s, b) ==
  IF b = maxBins THEN << >> ELSE BinPairs(s, b) \o EachBinRevFrom(s, b + 1)

EachBinRev(s) == EachBinRevFrom(s, 0)

Occupied(s) == {b \in Bins : Len(s[b]) > 0}

Deepest(s) == CHOOSE b \in Occupied(s) : \A c \in Occupied(s) : c <= b

Holes(s) ==
  IF Occupied(s) = {} THEN {}
  ELSE {b \in Bins : b < Deepest(s) /\ Len(s[b]) = 0}

\* ShallowestEmpty: the lowest empty bin shallower than the deepest occupied
\* bin; none = TRUE when there is no such bin
ShallowestEmpty(s) ==
  IF Holes(s) = {} THEN [bin |-> 0, none |-> TRUE]
  ELSE [bin |-> CHOOSE b \in Holes(s) : \A c \in Holes(s) : b <= c,
        none |-> FALSE]

(* ---------------------------------------------------------------------- *)
(* Kad.recalcDepth and Kad.binSaturated                                    *)
(* ---------------------------------------------------------------------- *)
\* the callback handed to EachBin by recalcDepth, folded over the traversal:
\* count the peers and stop at the first one that reaches nnLowWatermark
\* mutant: the scan stops at the first peer, the deepest one
ScanCandidateFirstPeer(trav, peers, candidate) ==
  IF trav = << >> THEN candidate ELSE Head(trav)[2]

\* mutant: the scan goes on after the count has reached the watermark
RECURSIVE ScanCandidateNoStop(_, _, _)
ScanCandidateNoStop(trav, peers, candidate) ==
  IF trav = << >> THEN candidate
  ELSE ScanCandidateNoStop(Tail(trav), peers + 1,
         IF peers + 1 >= nnLowWatermark THEN Head(trav)[2] ELSE candidate)

RECURSIVE ScanCandidate(_, _, _)
ScanCandidate(trav, peers, candidate) ==
  IF trav = << >> THEN candidate
  ELSE IF peers + 1 >= nnLowWatermark THEN Head(trav)[2]
  ELSE ScanCandidate(Tail(trav), peers + 1, candidate)

\* mutant: the candidate is looked for from the shallowest bin
recalcDepthShallowFirst(cp) ==
  IF PSliceLength(cp) <= nnLowWatermark THEN 0
  ELSE LET se == ShallowestEmpty(cp)
           candidate == ScanCandidate(EachBinRev(cp), 0, 0)
       IN IF se.none \/ se.bin > candidate THEN candidate ELSE se.bin

\* mutant: the second result of ShallowestEmpty is not looked at
recalcDepthIgnoresNone(cp) ==
  IF PSliceLength(cp) <= nnLowWatermark THEN 0
  ELSE LET se == ShallowestEmpty(cp)
           candidate == ScanCandidate(EachBin(cp), 0, 0)
       IN IF se.bin > candidate THEN candidate ELSE se.bin

\* mutant: the empty bins are not looked at
recalcDepthIgnoreHoles(cp) ==
  IF PSliceLength(cp) <= nnLowWatermark THEN 0
  ELSE ScanCandidate(EachBin(cp), 0, 0)

recalcDepth(cp) ==
  IF PSliceLength(cp) <= nnLowWatermark THEN 0
  ELSE LET se == ShallowestEmpty(cp)
           candidate == ScanCandidate(EachBin(cp), 0, 0)
       IN IF se.none \/ se.bin > candidate THEN candidate ELSE se.bin

\* the code returns false on both paths: the size check after the second
\* return is unreachable
binSaturated(po, d) == IF po >= d THEN FALSE ELSE FALSE

(* ---------------------------------------------------------------------- *)
(* The peers of TestNeighborhoodDepth, in the order the test adds them:    *)
(* binEight[0..1], peers[0..7], one peer at bin 9, one at each of bins     *)
(* 10..15 and a second peer at bin 15.  Each entry is <<po, salt>>.        *)
(* ---------------------------------------------------------------------- *)
TestPeers ==
  << <<8, 0>>, <<8, 1>>,
     <<0, 0>>, <<1, 0>>, <<2, 0>>, <<3, 0>>, <<4, 0>>, <<5, 0>>, <<6, 0>>,
     <<7, 0>>,
     <<9, 0>>,
     <<10, 0>>, <<11, 0>>, <<12, 0>>, <<13, 0>>, <<14, 0>>, <<15, 0>>,
     <<15, 1>> >>

TestAddr(i) == RandomAddressAt(Base, TestPeers[i][1], TestPeers[i][2])

\* number of distinct peers the callers of the unscripted specification use
MaxPeers == 4

Peers == {TestAddr(i) : i \in 1 .. MaxPeers}

(* ---------------------------------------------------------------------- *)
(* The chunk API (package api): the paths of /bzz-chunk/{addr}, the        *)
(* addresses they decode to and the bodies that are uploaded.  A path is   *)
(* a sequence of characters, an address a sequence of bytes.               *)
(* ---------------------------------------------------------------------- *)
\* the texts of {addr} that are requested: two spellings of the address ab,
\* the address aa, a text of odd length and one with a character that is no
\* hexadecimal digit
Paths ==
  { <<"a", "b">>, <<"A", "b">>, <<"a", "a">>, <<"a">>, <<"a", "g">> }

\* encoding/hex fromHexChar on the characters of Paths; -1: not a digit
fromHexChar(c) ==
  IF c = "a" \/ c = "A" THEN 10 ELSE IF c = "b" THEN 11 ELSE 0 - 1

\* hex.DecodeString: two digits make a byte; an odd length or a character
\* that is no digit is an error
RECURSIVE DecodeString(_)
DecodeString(s) ==
  IF s = << >> THEN [ok |-> TRUE, bytes |-> << >>]
  ELSE IF Len(s) = 1 THEN [ok |-> FALSE, bytes |-> << >>]
  ELSE LET hi == fromHexChar(s[1])
           lo == fromHexChar(s[2])
           rest == DecodeString(SubSeq(s, 3, Len(s)))
       IN IF hi < 0 \/ lo < 0 \/ ~rest.ok THEN [ok |-> FALSE, bytes |-> << >>]
          ELSE [ok |-> TRUE, bytes |-> <<16 * hi + lo>> \o rest.bytes]

\* httputil.UnmarshalMuxVars(mux.Vars(r), &path): path.Addr from the text of
\* the {addr} variable
UnmarshalMuxVars(p) == DecodeString(p)

Addresses == {DecodeString(p).bytes : p \in {q \in Paths : DecodeString(q).ok}}

\* swarm.Address.String: lower-case hexadecimal
hexDigit(n) == IF n = 10 THEN "a" ELSE IF n = 11 THEN "b" ELSE "?"

RECURSIVE AddressString(_)
AddressString(a) ==
  IF a = << >> THEN << >>
  ELSE <<hexDigit(Head(a) \div 16), hexDigit(Head(a) % 16)>>
         \o AddressString(Tail(a))

\* TestBzz: resource(addr), the path of the chunk with address addr
resource(addr) == AddressString(addr)

MaxBody == 2

\* the request bodies: the first n bytes of "bbaatt"
Bodies == {SubSeq(<<98, 98, 97, 97, 116, 116>>, 1, n) : n \in 0 .. MaxBody}

NoChunk == <<0 - 1>>

NoResponse ==
  [handler |-> "none", method |-> "none", path |-> << >>, code |-> 0,
   body |-> << >>]

MaxUploads == 1

\* the clients that upload files; each has one request under way at most
Uploaders == 1 .. MaxUploads

\* a client with no upload under way: where the handler is, the parts it has
\* stored, the metadata reference in hand, the response written so far
NoUpload == [at |-> "none", parts |-> 0, mr |-> << >>, code |-> 0,
             body |-> << >>]

(* ---------------------------------------------------------------------- *)
(* Package httputil: a struct with one field Bool, of type bool or *bool,  *)
(* filled by UnmarshalMuxVars or UnmarshalURLValues from the text given    *)
(* for the name "Bool".  A text is a sequence of characters; the field is  *)
(* "true", "false" or, for a nil *bool, "nil".                             *)
(* ---------------------------------------------------------------------- *)
UpperOf ==
  [t |-> "T", r |-> "R", u |-> "U", e |-> "E", f |-> "F", a |-> "A",
   l |-> "L", s |-> "S", o |-> "O", n |-> "N", y |-> "Y"]

\* unicode.ToLower on the characters used here
ToLowerChar(c) ==
  IF \E x \in DOMAIN UpperOf : UpperOf[x] = c
  THEN CHOOSE x \in DOMAIN UpperOf : UpperOf[x] = c
  ELSE c

\* strings.ToLower
ToLower(s) == [i \in 1 .. Len(s) |-> ToLowerChar(s[i])]

WordTrue == <<"t", "r", "u", "e">>

WordOn == <<"o", "n">>

WordFalse == <<"f", "a", "l", "s", "e">>

WordOff == <<"o", "f", "f">>

\* mutant: the text is compared as it is written
setValueCaseSensitive(ptr, v, s) ==
  LET elem == IF ptr /\ v = "nil" THEN "false" ELSE v
      low == s[1]
  IN IF low \in {<< >>, <<"1">>, WordTrue, WordOn}
     THEN [v |-> "true", err |-> "nil"]
     ELSE IF low \in {<<"0">>, WordFalse, WordOff}
     THEN [v |-> "false", err |-> "nil"]
     ELSE [v |-> elem, err |-> "invalid value"]

\* setValue for a field of kind Bool (ptr: of type *bool, where a nil pointer
\* is first set to a new bool); s is the list of texts, s[1] is Go's s[0]
setValue(ptr, v, s) ==
  LET elem == IF ptr /\ v = "nil" THEN "false" ELSE v
      low == ToLower(s[1])
  IN IF low \in {<< >>, <<"1">>, WordTrue, WordOn}
     THEN [v |-> "true", err |-> "nil"]
     ELSE IF low \in {<<"0">>, WordFalse, WordOff}
     THEN [v |-> "false", err |-> "nil"]
     ELSE [v |-> elem, err |-> "invalid value"]

\* fieldName of the field Bool, which has no json tag
fieldName == "Bool"

NoError == [Name |-> "", Err |-> "nil"]

\* NewFieldError(name, err)
NewFieldError(name, e) == [Name |-> name, Err |-> e]

\* the loop body of UnmarshalMuxVars and of UnmarshalURLValues for the field:
\* nothing is done when the name is not a key; list is what the key maps to
UnmarshalField(ptr, v, present, list) ==
  IF ~present THEN [v |-> v, err |-> NoError]
  ELSE LET r == setValue(ptr, v, list)
       IN [v |-> r.v,
           err |-> IF r.err # "nil" THEN NewFieldError(fieldName, r.err)
                   ELSE NoError]

\* every way of writing the word w in upper and lower case
RECURSIVE Spellings(_)
Spellings(w) ==
  IF w = << >> THEN {<< >>}
  ELSE {<<c>> \o rest : c \in {Head(w), UpperOf[Head(w)]},
                        rest \in Spellings(Tail(w))}

\* texts that are none of the words
OtherTexts ==
  { <<"2">>, <<"0", "0">>, <<"1", "1">>, <<"y">>, <<"Y", "e", "s">>,
    <<"n", "o">>, <<"t">>, <<"f">>, <<"o">>, <<"o", "f">>,
    <<"t", "r", "u">>, <<"t", "r", "u", "e", "e">>, <<" ", "1">>,
    <<"t", "r", "u", "e", " ">>, <<"f", "a", "l", "s">>,
    <<"o", "n", "n">>, <<"T", "r", "u", "e", "1">> }

Texts ==
  {<< >>, <<"1">>, <<"0">>} \cup Spellings(WordTrue) \cup Spellings(WordOn)
    \cup Spellings(WordFalse) \cup Spellings(WordOff) \cup OtherTexts

\* the test cases: the function called, the type of the field, whether the
\* name is a key of the map, the text
TestCases ==
  [fn : {"MuxVars", "URLValues"}, ptr : BOOLEAN, present : BOOLEAN, s : Texts]

NoCase == [fn |-> "none", ptr |-> FALSE, present |-> FALSE, s |-> << >>]

Pending == [Name |-> "", Err |-> "pending"]

VARIABLES
  knownPeers,      \* Kad.knownPeers
  connectedPeers,  \* Kad.connectedPeers
  depth,           \* Kad.depth
  mtx,             \* Kad.mtx: "free", "manage" or "caller"
  manageC,         \* number of signals buffered in Kad.manageC (capacity 1)
  quit,            \* TRUE once Kad.quit is closed
  pc,              \* position of the manage goroutine
  trav,            \* peers the running EachBinRev traversal has yet to visit
  err,             \* manage's local err after p2p.Connect returned
  call,            \* the public operation that holds mtx, if any
  fault,           \* the panic that ended the process, or "none"
  tpc,             \* TestNeighborhoodDepth: index of the next statement
  conns,           \* TestNeighborhoodDepth: the mock's connect counter
  store,           \* api: the chunks of server.Storer, by address
  posted,          \* api: per address, the data an upload stored there last
  resp,            \* api: the last request answered and the response it got
  upload,          \* api: per client, the file upload under way
  tcase,           \* httputil: the test case TestUnmarshal is running
  Bool,            \* httputil: the field Bool of the struct being filled
  ret,             \* httputil: the error the Unmarshal function returned
  failed,          \* TestNeighborhoodDepth: TRUE once t.Fatalf has been called
  polls            \* kDepth / waitConns: the loop variable i of the running helper

vars == <<knownPeers, connectedPeers, depth, mtx, manageC, quit, pc, trav,
          err, call, fault, tpc, conns, store, posted, resp, upload, tcase,
          Bool, ret, failed, polls>>

unmarshalVars == <<tcase, Bool, ret>>

\* the variables of the HTTP side: packages api and httputil
apiVars == <<store, posted, resp, upload, unmarshalVars>>

kadVars == <<knownPeers, connectedPeers, depth, mtx, manageC, quit, pc, trav,
             err, call, fault>>

Idle == [op |-> "none", addr |-> NoAddr, at |-> "none"]

\* kademlia.New: empty sets, depth 0, empty manageC, open quit, manage started
Init ==
  /\ knownPeers = PSliceNew
  /\ connectedPeers = PSliceNew
  /\ depth = 0
  /\ mtx = "free"
  /\ manageC = 0
  /\ quit = FALSE
  /\ pc = "select"
  /\ trav = << >>
  /\ err = "nil"
  /\ call = Idle
  /\ fault = "none"
  /\ tpc = 1
  /\ conns = 0
  /\ store = [a \in Addresses |-> NoChunk]
  /\ posted = [a \in Addresses |-> NoChunk]
  /\ resp = NoResponse
  /\ upload = [c \in Uploaders |-> NoUpload]
  /\ tcase = NoCase
  /\ Bool = "nil"
  /\ ret = Pending
  /\ failed = FALSE
  /\ polls = 0

Alive == fault = "none"

\* mutant: manageC queues every wake-up
SignalOutcomesQueue(mc, q) == {mc + 1}

\* select { case k.manageC <- struct{}{}: case <-k.quit: default: }
\* the values manageC can have afterwards: the send is taken when the buffer
\* has room, the quit case when quit is closed, either when both are ready
SignalOutcomes(mc, q) ==
  IF mc = 0 THEN (IF q THEN {0, 1} ELSE {1}) ELSE {mc}

NeighborhoodDepth == depth

\* mutant: the select takes the quit case only when no wake-up is pending
ManageQuitAfterWakeUps ==
  /\ Alive /\ pc = "select" /\ quit /\ manageC = 0
  /\ pc' = "exited"
  /\ UNCHANGED <<knownPeers, connectedPeers, depth, mtx, manageC, quit, trav,
                 err, call, fault, tpc, conns, apiVars, failed, polls>>

(* ---------------------------------------------------------------------- *)
(* The manage goroutine                                                    *)
(* ---------------------------------------------------------------------- *)
\* case <-k.quit: return
ManageQuit ==
  /\ Alive /\ pc = "select" /\ quit
  /\ pc' = "exited"
  /\ UNCHANGED <<knownPeers, connectedPeers, depth, mtx, manageC, quit, trav,
                 err, call, fault, tpc, conns, apiVars, failed, polls>>

\* case <-k.manageC: the wake-up is taken out of the channel
ManageWake ==
  /\ Alive /\ pc = "select" /\ manageC = 1
  /\ manageC' = 0
  /\ pc' = "woken"
  /\ UNCHANGED <<knownPeers, connectedPeers, depth, mtx, quit, trav, err,
                 call, fault, tpc, conns, apiVars, failed, polls>>

\* k.knownPeers.EachBinRev(...) is called: the pass is over the peers known
\* at this moment, which may be more than at the receive
ManageEachBinRev ==
  /\ Alive /\ pc = "woken"
  /\ trav' = EachBinRev(knownPeers)
  /\ pc' = "visit"
  /\ UNCHANGED <<knownPeers, connectedPeers, depth, mtx, manageC, quit, err,
                 call, fault, tpc, conns, apiVars, failed, polls>>

\* the traversal after the callback returned (stop, jumpToNext) for its head
SkipRestOfBin(t) == SelectSeq(Tail(t), LAMBDA x : x[2] # Head(t)[2])

\* mutant: connected peers are candidates too
CandidateIgnoresConnected(peer, po) == ~binSaturated(po, depth)

\* the peer is a candidate: whether the callback goes on to resolve and dial
Candidate(peer, po) ==
  /\ ~PSliceExists(connectedPeers, peer)
  /\ ~binSaturated(po, depth)

\* the callback returns (false, false) for a connected peer and (false, true)
\* for a peer of a saturated bin, without dialing
ManageSkip ==
  /\ Alive /\ pc = "visit" /\ trav # << >>
  /\ ~Candidate(Head(trav)[1], Head(trav)[2])
  /\ trav' = IF PSliceExists(connectedPeers, Head(trav)[1]) THEN Tail(trav)
             ELSE SkipRestOfBin(trav)
  /\ UNCHANGED <<knownPeers, connectedPeers, depth, mtx, manageC, quit, pc,
                 err, call, fault, tpc, conns, apiVars, failed, polls>>

\* mutant: manage takes k.mtx before it dials
ManageResolveLocked ==
  /\ Alive /\ pc = "visit" /\ trav # << >>
  /\ Candidate(Head(trav)[1], Head(trav)[2])
  /\ mtx = "free"
  /\ mtx' = "manage"
  /\ pc' = "dialing"
  /\ UNCHANGED <<knownPeers, connectedPeers, depth, manageC, quit, trav, err,
                 call, fault, tpc, conns, apiVars, failed, polls>>

\* k.addressBook.Get(peer) returns the underlay; k.p2p.Connect is called
ManageResolve ==
  /\ Alive /\ pc = "visit" /\ trav # << >>
  /\ Candidate(Head(trav)[1], Head(trav)[2])
  /\ pc' = "dialing"
  /\ UNCHANGED <<knownPeers, connectedPeers, depth, mtx, manageC, quit, trav,
                 err, call, fault, tpc, conns, apiVars, failed, polls>>

\* k.addressBook.Get(peer) fails: panic("err")
ManageResolveFail ==
  /\ Alive /\ pc = "visit" /\ trav # << >>
  /\ Candidate(Head(trav)[1], Head(trav)[2])
  /\ fault' = "err"
  /\ UNCHANGED <<knownPeers, connectedPeers, depth, mtx, manageC, quit, pc,
                 trav, err, call, tpc, conns, apiVars, failed, polls>>

\* EachBinRev has no peer left: back to the select of the for loop
ManagePassEnd ==
  /\ Alive /\ pc = "visit" /\ trav = << >>
  /\ pc' = "select"
  /\ UNCHANGED <<knownPeers, connectedPeers, depth, mtx, manageC, quit, trav,
                 err, call, fault, tpc, conns, apiVars, failed, polls>>

\* k.p2p.Connect returns e
ConnectReturns(e) ==
  /\ Alive /\ pc = "dialing"
  /\ err' = e
  /\ pc' = "returned"
  /\ UNCHANGED <<knownPeers, connectedPeers, depth, mtx, manageC, quit, trav,
                 call, fault>>

ConnectOk == ConnectReturns("nil") /\ UNCHANGED <<tpc, conns, apiVars, failed, polls>>

ConnectFail == ConnectReturns("error") /\ UNCHANGED <<tpc, conns, apiVars, failed, polls>>

\* mutant: the error of Connect is not looked at
DialFailedNever(e) == FALSE

\* if err != nil { ...; return false, false, nil }
DialFailed(e) == e # "nil"

\* mutant: a failed dial ends the pass
ManageDialFailedStops ==
  /\ Alive /\ pc = "returned" /\ DialFailed(err)
  /\ err' = "nil"
  /\ trav' = << >>
  /\ pc' = "visit"
  /\ UNCHANGED <<knownPeers, connectedPeers, depth, mtx, manageC, quit, call,
                 fault, tpc, conns, apiVars, failed, polls>>

ManageDialFailed ==
  /\ Alive /\ pc = "returned" /\ DialFailed(err)
  /\ err' = "nil"
  /\ trav' = Tail(trav)
  /\ pc' = "visit"
  /\ UNCHANGED <<knownPeers, connectedPeers, depth, mtx, manageC, quit, call,
                 fault, tpc, conns, apiVars, failed, polls>>

\* k.mtx.Lock(); k.connectedPeers.Add(peer, po)
ManageRecord ==
  /\ Alive /\ pc = "returned" /\ ~DialFailed(err)
  /\ mtx = "free"
  /\ mtx' = "manage"
  /\ connectedPeers' = PSliceAdd(connectedPeers, Head(trav)[1], Head(trav)[2])
  /\ err' = "nil"
  /\ pc' = "added"
  /\ UNCHANGED <<knownPeers, depth, manageC, quit, trav, call, fault, tpc,
                 conns, apiVars, failed, polls>>

\* mutant: manage unlocks without recalculating the depth
ManageUnlockOnly ==
  /\ Alive /\ pc = "added"
  /\ mtx' = "free"
  /\ pc' = "signal"
  /\ UNCHANGED <<knownPeers, connectedPeers, depth, manageC, quit, trav, err,
                 call, fault, tpc, conns, apiVars, failed, polls>>

\* mutant: manage does not unlock after it recorded the peer
ManageRecalcKeepsLock ==
  /\ Alive /\ pc = "added"
  /\ depth' = recalcDepth(connectedPeers)
  /\ pc' = "signal"
  /\ UNCHANGED <<knownPeers, connectedPeers, mtx, manageC, quit, trav, err,
                 call, fault, tpc, conns, apiVars, failed, polls>>

\* k.depth = k.recalcDepth(); k.mtx.Unlock()
ManageRecalc ==
  /\ Alive /\ pc = "added"
  /\ depth' = recalcDepth(connectedPeers)
  /\ mtx' = "free"
  /\ pc' = "signal"
  /\ UNCHANGED <<knownPeers, connectedPeers, manageC, quit, trav, err, call,
                 fault, tpc, conns, apiVars, failed, polls>>

\* the select that posts the wake-up, then return true, false, nil: the
\* traversal stops and manage is back at the select of the for loop
ManageSignal ==
  /\ Alive /\ pc = "signal"
  /\ manageC' \in SignalOutcomes(manageC, quit)
  /\ trav' = << >>
  /\ pc' = "select"
  /\ UNCHANGED <<knownPeers, connectedPeers, depth, mtx, quit, err, call,
                 fault, tpc, conns, apiVars, failed, polls>>

(* ---------------------------------------------------------------------- *)
(* The public operations.  Each takes k.mtx on entry and holds it until    *)
(* it returns; call records the operation that is inside and how far it    *)
(* has got: "locked" before its change of the sets, "posting" after it.    *)
(* manage reads the sets and manageC without the lock, so it can run       *)
(* between the change and the post.                                        *)
(* ---------------------------------------------------------------------- *)
CanEnter == Alive /\ mtx = "free" /\ call = Idle

\* k.mtx.Lock() on entry of the operation op called with addr
Enter(op, addr) ==
  /\ CanEnter
  /\ mtx' = "caller"
  /\ call' = [op |-> op, addr |-> addr, at |-> "locked"]
  /\ UNCHANGED <<knownPeers, connectedPeers, depth, manageC, quit, pc, trav,
                 err, fault>>

AddPeerEnter(addr) == Enter("AddPeer", addr)

RemoveEnter(addr) == Enter("Remove", addr)

DisconnectedEnter(addr) == Enter("Disconnected", addr)

\* mutant: AddPeer looks for the address in the connected set only
AlreadyExistsConnectedOnly(addr) == PSliceExists(connectedPeers, addr)

\* if e || e2: whether AddPeer finds the address in one of the sets
AlreadyExists(addr) ==
  PSliceExists(connectedPeers, addr) \/ PSliceExists(knownPeers, addr)

\* mutant: AddPeer files every address under bin 0
AddPeerAddBinZero ==
  /\ Alive /\ call.op = "AddPeer" /\ call.at = "locked"
  /\ ~AlreadyExists(call.addr)
  /\ knownPeers' = PSliceAdd(knownPeers, call.addr, 0)
  /\ call' = [call EXCEPT !.at = "posting"]
  /\ UNCHANGED <<connectedPeers, depth, mtx, manageC, quit, pc, trav, err,
                 fault, tpc, conns, apiVars, failed, polls>>

\* AddPeer of an address that is in neither set: the two Exists checks and
\* k.knownPeers.Add(addr, uint8(po)), under the lock taken on entry
AddPeerAdd ==
  /\ Alive /\ call.op = "AddPeer" /\ call.at = "locked"
  /\ ~AlreadyExists(call.addr)
  /\ knownPeers' = PSliceAdd(knownPeers, call.addr, Proximity(Base, call.addr))
  /\ call' = [call EXCEPT !.at = "posting"]
  /\ UNCHANGED <<connectedPeers, depth, mtx, manageC, quit, pc, trav, err,
                 fault, tpc, conns, apiVars, failed, polls>>

\* mutant: AddPeer does not post the wake-up
AddPeerReturnSilent ==
  /\ Alive /\ call.op = "AddPeer" /\ call.at = "posting"
  /\ manageC' = manageC
  /\ mtx' = "free"
  /\ call' = Idle
  /\ UNCHANGED <<knownPeers, connectedPeers, depth, quit, pc, trav, err,
                 fault, tpc, conns, apiVars, failed, polls>>

\* AddPeer after the Add: the select that posts the wake-up, return nil and
\* the deferred Unlock.  manage, which reads without the lock, may have run
\* since the Add
AddPeerReturn ==
  /\ Alive /\ call.op = "AddPeer" /\ call.at = "posting"
  /\ manageC' \in SignalOutcomes(manageC, quit)
  /\ mtx' = "free"
  /\ call' = Idle
  /\ UNCHANGED <<knownPeers, connectedPeers, depth, quit, pc, trav, err,
                 fault, tpc, conns, apiVars, failed, polls>>

\* AddPeer of an address that is in one of the sets:
\* panic("peer already connected")
AddPeerPanic ==
  /\ Alive /\ call.op = "AddPeer" /\ call.at = "locked"
  /\ AlreadyExists(call.addr)
  /\ fault' = "peer already connected"
  /\ UNCHANGED <<knownPeers, connectedPeers, depth, mtx, manageC, quit, pc,
                 trav, err, call, tpc, conns, apiVars, failed, polls>>

\* mutant: Remove takes the peer out of the known set too
RemoveTakeOutForgets ==
  /\ Alive /\ call.op = "Remove" /\ call.at = "locked"
  /\ connectedPeers' =
       PSliceRemove(connectedPeers, call.addr, Proximity(Base, call.addr))
  /\ knownPeers' =
       PSliceRemove(knownPeers, call.addr, Proximity(Base, call.addr))
  /\ depth' = recalcDepth(connectedPeers')
  /\ call' = [call EXCEPT !.at = "posting"]
  /\ UNCHANGED <<mtx, manageC, quit, pc, trav, err, fault, tpc, conns, apiVars, failed, polls>>

\* mutant: Remove does not recalculate the depth
RemoveTakeOutStale ==
  /\ Alive /\ call.op = "Remove" /\ call.at = "locked"
  /\ connectedPeers' =
       PSliceRemove(connectedPeers, call.addr, Proximity(Base, call.addr))
  /\ knownPeers' = knownPeers
  /\ depth' = depth
  /\ call' = [call EXCEPT !.at = "posting"]
  /\ UNCHANGED <<mtx, manageC, quit, pc, trav, err, fault, tpc, conns, apiVars, failed, polls>>

\* Remove under the lock: k.connectedPeers.Remove(addr, uint8(po)) and
\* k.depth = k.recalcDepth()
RemoveTakeOut ==
  /\ Alive /\ call.op = "Remove" /\ call.at = "locked"
  /\ connectedPeers' =
       PSliceRemove(connectedPeers, call.addr, Proximity(Base, call.addr))
  /\ knownPeers' = knownPeers
  /\ depth' = recalcDepth(connectedPeers')
  /\ call' = [call EXCEPT !.at = "posting"]
  /\ UNCHANGED <<mtx, manageC, quit, pc, trav, err, fault, tpc, conns, apiVars, failed, polls>>

\* mutant: Remove does not post the wake-up
RemoveReturnSilent ==
  /\ Alive /\ call.op = "Remove" /\ call.at = "posting"
  /\ manageC' = manageC
  /\ mtx' = "free"
  /\ call' = Idle
  /\ UNCHANGED <<knownPeers, connectedPeers, depth, quit, pc, trav, err,
                 fault, tpc, conns, apiVars, failed, polls>>

\* Remove after the recalculation: the select that posts the wake-up and the
\* deferred Unlock
RemoveReturn ==
  /\ Alive /\ call.op = "Remove" /\ call.at = "posting"
  /\ manageC' \in SignalOutcomes(manageC, quit)
  /\ mtx' = "free"
  /\ call' = Idle
  /\ UNCHANGED <<knownPeers, connectedPeers, depth, quit, pc, trav, err,
                 fault, tpc, conns, apiVars, failed, polls>>

\* mutant: Disconnected recalculates the depth before it removes the peer
DisconnectedTakeOutEarly ==
  /\ Alive /\ call.op = "Disconnected" /\ call.at = "locked"
  /\ connectedPeers' =
       PSliceRemove(connectedPeers, call.addr, Proximity(Base, call.addr))
  /\ knownPeers' = knownPeers
  /\ depth' = recalcDepth(connectedPeers)
  /\ call' = [call EXCEPT !.at = "posting"]
  /\ UNCHANGED <<mtx, manageC, quit, pc, trav, err, fault, tpc, conns, apiVars, failed, polls>>

\* Disconnected under the lock: k.connectedPeers.Remove(addr, po) and
\* k.depth = k.recalcDepth()
DisconnectedTakeOut ==
  /\ Alive /\ call.op = "Disconnected" /\ call.at = "locked"
  /\ connectedPeers' =
       PSliceRemove(connectedPeers, call.addr, Proximity(Base, call.addr))
  /\ knownPeers' = knownPeers
  /\ depth' = recalcDepth(connectedPeers')
  /\ call' = [call EXCEPT !.at = "posting"]
  /\ UNCHANGED <<mtx, manageC, quit, pc, trav, err, fault, tpc, conns, apiVars, failed, polls>>

\* Disconnected after the recalculation: the select that posts the wake-up
\* and the deferred Unlock
DisconnectedReturn ==
  /\ Alive /\ call.op = "Disconnected" /\ call.at = "posting"
  /\ manageC' \in SignalOutcomes(manageC, quit)
  /\ mtx' = "free"
  /\ call' = Idle
  /\ UNCHANGED <<knownPeers, connectedPeers, depth, quit, pc, trav, err,
                 fault, tpc, conns, apiVars, failed, polls>>

\* NeighborhoodDepth: Lock, then return k.neighborhoodDepth() and Unlock
NeighborhoodDepthEnter == Enter("NeighborhoodDepth", NoAddr) /\ UNCHANGED <<tpc, conns, apiVars, failed, polls>>

NeighborhoodDepthReturn ==
  /\ Alive /\ call.op = "NeighborhoodDepth"
  /\ mtx' = "free"
  /\ call' = Idle
  /\ UNCHANGED <<knownPeers, connectedPeers, depth, manageC, quit, pc, trav,
                 err, fault, tpc, conns, apiVars, failed, polls>>

\* Close: close(k.quit)
CloseQuit ==
  /\ Alive /\ ~quit
  /\ quit' = TRUE
  /\ UNCHANGED <<knownPeers, connectedPeers, depth, mtx, manageC, pc, trav,
                 err, call, fault>>

\* a second Close closes a closed channel: panic
CloseAgain ==
  /\ Alive /\ quit
  /\ fault' = "close of closed channel"
  /\ UNCHANGED <<knownPeers, connectedPeers, depth, mtx, manageC, quit, pc,
                 trav, err, call, tpc, conns, apiVars, failed, polls>>

\* ClosestPeer: panic("not implemented"), whatever the address and the sets
ClosestPeer(addr) ==
  /\ Alive
  /\ fault' = "not implemented"
  /\ UNCHANGED <<knownPeers, connectedPeers, depth, mtx, manageC, quit, pc,
                 trav, err, call, tpc, conns, apiVars, failed, polls>>

AddPeer(addr) == AddPeerEnter(addr) /\ UNCHANGED <<tpc, conns, apiVars, failed, polls>>

Remove(addr) == RemoveEnter(addr) /\ UNCHANGED <<tpc, conns, apiVars, failed, polls>>

Disconnected(addr) == DisconnectedEnter(addr) /\ UNCHANGED <<tpc, conns, apiVars, failed, polls>>

Close == CloseQuit /\ UNCHANGED <<tpc, conns, apiVars, failed, polls>>

\* any caller, any peer of Peers, any outcome of the resolver and the connector
Next ==
  \/ ManageQuit
  \/ ManageWake
  \/ ManageEachBinRev
  \/ ManageSkip
  \/ ManageResolve
  \/ ManagePassEnd
  \/ ManageRecord
  \/ ManageRecalc
  \/ ManageSignal
  \/ ManageResolveFail
  \/ ConnectOk
  \/ ConnectFail
  \/ ManageDialFailed
  \/ \E addr \in Peers : AddPeer(addr)
  \/ \E addr \in Peers : Remove(addr)
  \/ \E addr \in Peers : Disconnected(addr)
  \/ NeighborhoodDepthEnter
  \/ AddPeerAdd
  \/ AddPeerReturn
  \/ AddPeerPanic
  \/ RemoveTakeOut
  \/ RemoveReturn
  \/ DisconnectedTakeOut
  \/ DisconnectedReturn
  \/ NeighborhoodDepthReturn
  \/ Close
  \/ CloseAgain
  \/ \E addr \in Peers : ClosestPeer(addr)

Spec == Init /\ [][Next]_vars

(* ---------------------------------------------------------------------- *)
(* The manager under scheduling: every goroutine that can take a step      *)
(* eventually takes one.  manage goes on from each of its positions, the   *)
(* resolver and Connect return, a caller that holds k.mtx runs to its      *)
(* return, and manage, waiting in k.mtx.Lock(), gets the lock in the end   *)
(* although callers keep taking it (sync.Mutex hands the lock to a waiter  *)
(* that has been starved).  Whether and when callers call is left open.    *)
(* ---------------------------------------------------------------------- *)
MaxLivePeers == 2

LivePeers == {TestAddr(i) : i \in 1 .. MaxLivePeers}

LiveNext ==
  \/ ManageQuit
  \/ ManageWake
  \/ ManageEachBinRev
  \/ ManageSkip
  \/ ManageResolve
  \/ ManagePassEnd
  \/ ManageRecord
  \/ ManageRecalc
  \/ ManageSignal
  \/ ManageResolveFail
  \/ ConnectOk
  \/ ConnectFail
  \/ ManageDialFailed
  \/ \E addr \in LivePeers : AddPeer(addr)
  \/ \E addr \in LivePeers : Remove(addr)
  \/ \E addr \in LivePeers : Disconnected(addr)
  \/ NeighborhoodDepthEnter
  \/ AddPeerAdd
  \/ AddPeerReturn
  \/ AddPeerPanic
  \/ RemoveTakeOut
  \/ RemoveReturn
  \/ DisconnectedTakeOut
  \/ DisconnectedReturn
  \/ NeighborhoodDepthReturn
  \/ Close
  \/ CloseAgain

Scheduling ==
  /\ WF_vars(ManageQuit \/ ManageWake)
  /\ WF_vars(ManageEachBinRev)
  /\ WF_vars(ManageSkip)
  /\ WF_vars(ManageResolve \/ ManageResolveFail)
  /\ WF_vars(ManagePassEnd)
  /\ WF_vars(ConnectOk \/ ConnectFail)
  /\ WF_vars(ManageDialFailed)
  /\ SF_vars(ManageRecord)
  /\ WF_vars(ManageRecalc)
  /\ WF_vars(ManageSignal)
  /\ WF_vars(AddPeerAdd \/ AddPeerPanic)
  /\ WF_vars(AddPeerReturn)
  /\ WF_vars(RemoveTakeOut)
  /\ WF_vars(RemoveReturn)
  /\ WF_vars(DisconnectedTakeOut)
  /\ WF_vars(DisconnectedReturn)
  /\ WF_vars(NeighborhoodDepthReturn)

LiveSpec == Init /\ [][LiveNext]_vars /\ Scheduling

\* the select of manage is fair: when the quit case is ready again and again,
\* it is taken
FairSelect == SF_vars(ManageQuit)

CloseSpec == Init /\ [][LiveNext]_vars /\ Scheduling /\ FairSelect

(* ---------------------------------------------------------------------- *)
(* TestNeighborhoodDepth: the statements of the test, run one at a time    *)
(* against the manager, with the address book filled for every peer and    *)
(* the p2p mock that counts the calls of Connect and never fails.          *)
(* ---------------------------------------------------------------------- *)
RECURSIVE Repeat(_, _, _)
Repeat(Body(_), from, to) ==
  IF from > to THEN << >> ELSE Body(from) \o Repeat(Body, from + 1, to)

\* addOne(peers[i]); waitConn; kDepth(i+1); reset      (peers[i] = TestAddr(i+3))
ShallowStep(i) ==
  << <<"add", i + 3>>, <<"waitConns", 1>>, <<"kDepth", i + 1>>, <<"reset", 0>> >>

\* addOne(RandomAddressAt(base, i)); waitConn; kDepth(i-1); reset
DeepStep(i) ==
  << <<"add", i + 2>>, <<"waitConns", 1>>, <<"kDepth", i - 1>>, <<"reset", 0>> >>

Script ==
  << <<"kDepth", 0>>,
     <<"add", 1>>, <<"add", 2>>, <<"kDepth", 0>>,
     <<"add", 3>>, <<"add", 4>>, <<"waitConns", 4>>, <<"kDepth", 2>>,
     <<"reset", 0>> >>
  \o Repeat(ShallowStep, 2, 6)
  \o << <<"add", 10>>, <<"waitConns", 1>>, <<"kDepth", 8>>, <<"reset", 0>>,
        <<"add", 11>>, <<"waitConns", 1>>, <<"kDepth", 8>>, <<"reset", 0>> >>
  \o Repeat(DeepStep, 10, maxBins - 1)
  \o << <<"add", 18>>, <<"waitConns", 1>>, <<"kDepth", 15>>,
        <<"remove", 18>>, <<"kDepth", 14>>,
        <<"remove", 4>>, <<"kDepth", 1>> >>

\* the driver of a test: S is the list of its statements, tpc the next one
Running(S) == tpc <= Len(S)

\* add / addOne: ab.Put, then k.AddPeer(nil, peer)
TestAddPeer(S) ==
  /\ Running(S) /\ S[tpc][1] = "add"
  /\ AddPeerEnter(TestAddr(S[tpc][2]))
  /\ tpc' = tpc + 1
  /\ UNCHANGED <<conns, apiVars, failed, polls>>

\* removeOne: k.Remove(peer)
TestRemove(S) ==
  /\ Running(S) /\ S[tpc][1] = "remove"
  /\ RemoveEnter(TestAddr(S[tpc][2]))
  /\ tpc' = tpc + 1
  /\ UNCHANGED <<conns, apiVars, failed, polls>>

\* the polls kDepth and waitConns make before they give up
kDepthPolls == 20
waitConnsPolls == 50

\* t.Fatalf in a helper: the test is marked failed and the test function
\* ends; only its deferred calls are still to run
TestFatalf(S) ==
  /\ tpc' = Len(S) + 1
  /\ failed' = TRUE
  /\ polls' = 0

\* one turn of a helper's polling loop, got the value read and want the one
\* waited for: return, or sleep and go round again, or t.Fatalf after the
\* last turn
TestPoll(S, got, want, turns) ==
  IF got = want
    THEN tpc' = tpc + 1 /\ polls' = 0 /\ UNCHANGED failed
    ELSE IF polls + 1 < turns
      THEN polls' = polls + 1 /\ UNCHANGED <<tpc, failed>>
      ELSE TestFatalf(S)

\* kDepth: poll k.NeighborhoodDepth() until it is d, twenty times at most
TestKDepth(S) ==
  /\ Running(S) /\ S[tpc][1] = "kDepth"
  /\ CanEnter
  /\ TestPoll(S, NeighborhoodDepth, S[tpc][2], kDepthPolls)
  /\ UNCHANGED <<kadVars, conns, apiVars>>

\* waitConns: poll the counter until it is exp, fifty times at most
TestWaitConns(S) ==
  /\ Running(S) /\ S[tpc][1] = "waitConns"
  /\ Alive /\ call = Idle
  /\ TestPoll(S, conns, S[tpc][2], waitConnsPolls)
  /\ UNCHANGED <<kadVars, conns, apiVars>>

\* atomic.StoreInt32(&conns, 0)
TestReset(S) ==
  /\ Running(S) /\ S[tpc][1] = "reset"
  /\ Alive /\ call = Idle
  /\ conns' = 0
  /\ tpc' = tpc + 1
  /\ UNCHANGED <<kadVars, apiVars, failed, polls>>

\* defer kad.Close()
TestClose(S) ==
  /\ tpc = Len(S) + 1
  /\ call = Idle
  /\ CloseQuit
  /\ tpc' = tpc + 1
  /\ UNCHANGED <<conns, apiVars, failed, polls>>

\* k.Disconnected(peer), called by the driver
TestDisconnected(S) ==
  /\ Running(S) /\ S[tpc][1] = "disconnected"
  /\ DisconnectedEnter(TestAddr(S[tpc][2]))
  /\ tpc' = tpc + 1
  /\ UNCHANGED <<conns, apiVars, failed, polls>>

\* kad.Close() as a statement of the driver, between two calls
TestCloseStmt(S) ==
  /\ Running(S) /\ S[tpc][1] = "close"
  /\ call = Idle
  /\ CloseQuit
  /\ tpc' = tpc + 1
  /\ UNCHANGED <<conns, apiVars, failed, polls>>

\* the mock's ConnectFunc: count the call and return no error
MockConnect ==
  /\ ConnectReturns("nil")
  /\ conns' = conns + 1
  /\ UNCHANGED <<tpc, apiVars, failed, polls>>

GoldenNext ==
  \/ ManageQuit
  \/ ManageWake
  \/ ManageEachBinRev
  \/ ManageSkip
  \/ ManageResolve
  \/ ManagePassEnd
  \/ ManageRecord
  \/ ManageRecalc
  \/ ManageSignal
  \/ MockConnect
  \/ AddPeerAdd
  \/ AddPeerReturn
  \/ RemoveTakeOut
  \/ RemoveReturn
  \/ TestAddPeer(Script)
  \/ TestRemove(Script)
  \/ TestKDepth(Script)
  \/ TestWaitConns(Script)
  \/ TestReset(Script)
  \/ TestClose(Script)

GoldenSpec == Init /\ [][GoldenNext]_vars

(* ---------------------------------------------------------------------- *)
(* The round trip of a peer, with the helpers of TestNeighborhoodDepth:    *)
(* three peers are added and connect (depth 1), then one of them is taken  *)
(* out with Remove and handed to AddPeer again.                            *)
(* ---------------------------------------------------------------------- *)
RoundTripScript ==
  << <<"add", 1>>, <<"add", 2>>, <<"add", 3>>, <<"waitConns", 3>>,
     <<"kDepth", 1>>, <<"remove", 1>>, <<"add", 1>>, <<"kDepth", 1>> >>

RoundTripNext ==
  \/ ManageWake
  \/ ManageEachBinRev
  \/ ManageSkip
  \/ ManageResolve
  \/ ManagePassEnd
  \/ ManageRecord
  \/ ManageRecalc
  \/ ManageSignal
  \/ MockConnect
  \/ AddPeerAdd
  \/ AddPeerReturn
  \/ AddPeerPanic
  \/ RemoveTakeOut
  \/ RemoveReturn
  \/ TestAddPeer(RoundTripScript)
  \/ TestRemove(RoundTripScript)
  \/ TestKDepth(RoundTripScript)
  \/ TestWaitConns(RoundTripScript)

RoundTripSpec == Init /\ [][RoundTripNext]_vars

(* ---------------------------------------------------------------------- *)
(* Calls after shutdown, with the helpers of TestNeighborhoodDepth: three  *)
(* peers are added and connect, the manager is closed, and then AddPeer,   *)
(* Remove and Disconnected are called, one after the other.                *)
(* ---------------------------------------------------------------------- *)
ShutdownScript ==
  << <<"add", 1>>, <<"add", 2>>, <<"add", 3>>, <<"waitConns", 3>>,
     <<"kDepth", 1>>, <<"close", 0>>,
     <<"add", 4>>, <<"remove", 1>>, <<"disconnected", 2>> >>

ShutdownNext ==
  \/ ManageQuit
  \/ ManageWake
  \/ ManageEachBinRev
  \/ ManageSkip
  \/ ManageResolve
  \/ ManagePassEnd
  \/ ManageRecord
  \/ ManageRecalc
  \/ ManageSignal
  \/ MockConnect
  \/ AddPeerAdd
  \/ AddPeerReturn
  \/ RemoveTakeOut
  \/ RemoveReturn
  \/ DisconnectedTakeOut
  \/ DisconnectedReturn
  \/ TestAddPeer(ShutdownScript)
  \/ TestRemove(ShutdownScript)
  \/ TestDisconnected(ShutdownScript)
  \/ TestKDepth(ShutdownScript)
  \/ TestWaitConns(ShutdownScript)
  \/ TestCloseStmt(ShutdownScript)

ShutdownSpec == Init /\ [][ShutdownNext]_vars

(* ---------------------------------------------------------------------- *)
(* A disconnect in the dial window, with the helpers of                    *)
(* TestNeighborhoodDepth: two peers are added and dialed, a third is added *)
(* and, once the connector has returned for it, reported as disconnected.  *)
(* ---------------------------------------------------------------------- *)
WindowScript ==
  << <<"add", 3>>, <<"add", 4>>, <<"waitConns", 2>>, <<"kDepth", 0>>,
     <<"add", 1>>, <<"waitConns", 3>>,
     <<"disconnected", 1>> >>

WindowNext ==
  \/ ManageWake
  \/ ManageEachBinRev
  \/ ManageSkip
  \/ ManageResolve
  \/ ManagePassEnd
  \/ ManageRecord
  \/ ManageRecalc
  \/ ManageSignal
  \/ MockConnect
  \/ AddPeerAdd
  \/ AddPeerReturn
  \/ DisconnectedTakeOut
  \/ DisconnectedReturn
  \/ TestAddPeer(WindowScript)
  \/ TestDisconnected(WindowScript)
  \/ TestKDepth(WindowScript)
  \/ TestWaitConns(WindowScript)

WindowSpec == Init /\ [][WindowNext]_vars

(* ---------------------------------------------------------------------- *)
(* Removal and redial, with the helpers of TestNeighborhoodDepth: three    *)
(* peers are added and connect (depth 1), one is taken out with Remove and *)
(* later another is reported with Disconnected; the driver waits for the   *)
(* connector to be called again and for the depth to be 1 again.  The      *)
(* manager, the mock connector and the driver are scheduled fairly.        *)
(* ---------------------------------------------------------------------- *)
RedialScript ==
  << <<"add", 1>>, <<"add", 2>>, <<"add", 3>>, <<"waitConns", 3>>,
     <<"kDepth", 1>>,
     <<"remove", 1>>, <<"waitConns", 4>>, <<"kDepth", 1>>,
     <<"disconnected", 3>>, <<"waitConns", 5>>, <<"kDepth", 1>> >>

RedialNext ==
  \/ ManageWake
  \/ ManageEachBinRev
  \/ ManageSkip
  \/ ManageResolve
  \/ ManagePassEnd
  \/ ManageRecord
  \/ ManageRecalc
  \/ ManageSignal
  \/ MockConnect
  \/ AddPeerAdd
  \/ AddPeerReturn
  \/ RemoveTakeOut
  \/ RemoveReturn
  \/ DisconnectedTakeOut
  \/ DisconnectedReturn
  \/ TestAddPeer(RedialScript)
  \/ TestRemove(RedialScript)
  \/ TestDisconnected(RedialScript)
  \/ TestKDepth(RedialScript)
  \/ TestWaitConns(RedialScript)

\* the mock connector returns, and the driver goes on with its next statement
\* when that statement can be run
DriverScheduling ==
  /\ WF_vars(MockConnect)
  /\ WF_vars(TestAddPeer(RedialScript))
  /\ WF_vars(TestRemove(RedialScript))
  /\ WF_vars(TestDisconnected(RedialScript))
  /\ WF_vars(TestKDepth(RedialScript))
  /\ WF_vars(TestWaitConns(RedialScript))

RedialSpec ==
  Init /\ [][RedialNext]_vars /\ Scheduling /\ DriverScheduling

(* ---------------------------------------------------------------------- *)
(* Finitely many calls: a driver that makes at most MaxCalls calls, each   *)
(* one any of AddPeer, Remove and Disconnected on any peer, against a      *)
(* manager that is never closed and whose resolver and connector always    *)
(* succeed; tpc counts the calls.  The steps of manage and the returns of  *)
(* the calls are scheduled fairly; the driver is free to stop calling.     *)
(* ---------------------------------------------------------------------- *)
MaxCalls == 4

DriverCall ==
  /\ tpc <= MaxCalls
  /\ \E addr \in LivePeers :
       AddPeerEnter(addr) \/ RemoveEnter(addr) \/ DisconnectedEnter(addr)
  /\ tpc' = tpc + 1
  /\ UNCHANGED <<conns, apiVars, failed, polls>>

WakeNext ==
  \/ ManageWake
  \/ ManageEachBinRev
  \/ ManageSkip
  \/ ManageResolve
  \/ ManagePassEnd
  \/ ManageRecord
  \/ ManageRecalc
  \/ ManageSignal
  \/ ConnectOk
  \/ DriverCall
  \/ AddPeerAdd
  \/ AddPeerReturn
  \/ AddPeerPanic
  \/ RemoveTakeOut
  \/ RemoveReturn
  \/ DisconnectedTakeOut
  \/ DisconnectedReturn

WakeSpec == Init /\ [][WakeNext]_vars /\ Scheduling

(* ---------------------------------------------------------------------- *)
(* Peer churn: callers that add each peer once and take connected peers    *)
(* out again, with a resolver and a connector that always succeed and no   *)
(* shutdown.  The peers lie in bins 0, 1 and 2, two of them in bins 0, 2.  *)
(* ---------------------------------------------------------------------- *)
ChurnList == << <<0, 0>>, <<1, 0>>, <<2, 0>>, <<2, 1>>, <<0, 1>>, <<3, 0>> >>

MaxChurn == 5

ChurnPeers ==
  {RandomAddressAt(Base, ChurnList[i][1], ChurnList[i][2]) : i \in 1 .. MaxChurn}

ChurnNext ==
  \/ ManageWake
  \/ ManageEachBinRev
  \/ ManageSkip
  \/ ManageResolve
  \/ ManagePassEnd
  \/ ManageRecord
  \/ ManageRecalc
  \/ ManageSignal
  \/ ConnectOk
  \/ \E addr \in ChurnPeers : AddPeer(addr)
  \/ \E addr \in ChurnPeers : Remove(addr)
  \/ \E addr \in ChurnPeers : Disconnected(addr)
  \/ AddPeerAdd
  \/ AddPeerReturn
  \/ RemoveTakeOut
  \/ RemoveReturn
  \/ DisconnectedTakeOut
  \/ DisconnectedReturn

ChurnSpec == Init /\ [][ChurnNext]_vars

(* ---------------------------------------------------------------------- *)
(* The chunk API: the handlers of POST and GET /bzz-chunk/{addr} over the  *)
(* Storer of TestBzz, a store that keeps the data of a chunk under its     *)
(* address when its validator accepts the chunk.                           *)
(* ---------------------------------------------------------------------- *)
\* s.Storer.Put(ctx, storage.ModePutUpload, chunk): the error and the store
StorerPut(st, addr, data, valid) ==
  IF valid THEN [err |-> "nil", store |-> [st EXCEPT ![addr] = data]]
  ELSE [err |-> "invalid chunk", store |-> st]

\* s.Storer.Get(ctx, storage.ModeGetRequest, addr): the error and the data
StorerGet(st, addr) ==
  IF st[addr] = NoChunk THEN [err |-> "ErrNotFound", data |-> << >>]
  ELSE [err |-> "nil", data |-> st[addr]]

\* the status chunkUploadHandler answers with
UploadCode(p, readOk, put) ==
  IF ~p.ok THEN 404
  ELSE IF ~readOk THEN 500
  ELSE IF put.err # "nil" THEN 400
  ELSE 200

\* mutant: the upload handler stores the first byte of the body only
chunkUploadHandlerFirstByte(path, readOk, data, valid) ==
  LET p == UnmarshalMuxVars(path)
      put == StorerPut(store, p.bytes,
                       IF data = << >> THEN data ELSE <<Head(data)>>, valid)
      code == IF p.ok /\ readOk THEN UploadCode(p, readOk, put)
              ELSE UploadCode(p, readOk, [err |-> "nil"])
  IN /\ store' = IF code = 200 THEN put.store ELSE store
     /\ posted' = IF code = 200 THEN [posted EXCEPT ![p.bytes] = data]
                  ELSE posted
     /\ resp' = [handler |-> "chunkUploadHandler", method |-> "POST",
                 path |-> path, code |-> code, body |-> << >>]
     /\ UNCHANGED <<kadVars, tpc, conns, upload, unmarshalVars, failed, polls>>

\* POST /bzz-chunk/{addr}: path is the text of {addr}, data the request body,
\* readOk whether ioutil.ReadAll(r.Body) succeeds, valid the validator's word
chunkUploadHandler(path, readOk, data, valid) ==
  LET p == UnmarshalMuxVars(path)
      put == StorerPut(store, p.bytes, data, valid)
      code == IF p.ok /\ readOk THEN UploadCode(p, readOk, put)
              ELSE UploadCode(p, readOk, [err |-> "nil"])
  IN /\ store' = IF code = 200 THEN put.store ELSE store
     /\ posted' = IF code = 200 THEN [posted EXCEPT ![p.bytes] = data]
                  ELSE posted
     /\ resp' = [handler |-> "chunkUploadHandler", method |-> "POST",
                 path |-> path, code |-> code, body |-> << >>]
     /\ UNCHANGED <<kadVars, tpc, conns, upload, unmarshalVars, failed, polls>>

\* the status chunkGetHandler answers with
GetCode(p, got) ==
  IF ~p.ok THEN 404
  ELSE IF got.err = "ErrNotFound" THEN 404
  ELSE IF got.err # "nil" THEN 500
  ELSE 200

\* GET /bzz-chunk/{addr}: io.Copy of chunk.Data() to the response
chunkGetHandler(path) ==
  LET p == UnmarshalMuxVars(path)
      got == IF p.ok THEN StorerGet(store, p.bytes)
             ELSE [err |-> "nil", data |-> << >>]
      code == GetCode(p, got)
  IN /\ resp' = [handler |-> "chunkGetHandler", method |-> "GET",
                 path |-> path, code |-> code,
                 body |-> IF code = 200 THEN got.data ELSE << >>]
     /\ UNCHANGED <<kadVars, tpc, conns, store, posted, upload, unmarshalVars,
                     failed, polls>>

(* ---------------------------------------------------------------------- *)
(* The file upload of package api.  The packages splitter, entry and       *)
(* jsonhttp are outside the sources at hand: Split is taken to Put one     *)
(* chunk, holding the bytes it was given, under an address of its own      *)
(* choosing, or to fail without a Put; the address and the verdict of the  *)
(* store are inputs of the request, and any address may come out for any   *)
(* data.                                                                   *)
(* ---------------------------------------------------------------------- *)
MaxParts == 1

\* what Split meets: the address of the chunk and the validator's word
SplitOutcomes == [addr : Addresses, valid : BOOLEAN]

\* what mr.NextPart() yields: io.EOF, an error, or a part with its file name,
\* form name and Content-Type header; detect is the type
\* mimetype.DetectReader finds, << >> when it fails
PartOf(next, fileName, contentType, detect) ==
  [next |-> next, fileName |-> fileName, formName |-> <<103>>,
   contentType |-> contentType, detect |-> detect]

\* the parts that differ in what the handler does with them
FileParts ==
  {PartOf("EOF", << >>, << >>, << >>),
   PartOf("error", << >>, << >>, << >>),
   PartOf("part", << >>, << >>, << >>)}
  \cup {PartOf("part", n, t[1], t[2]) :
          n \in {<< >>, <<102>>},
          t \in {<< <<116>>, << >> >>, << << >>, <<100>> >>}}

\* splitr.Split(ctx, reader, length): the error, the address, the store
Split(st, data, o) ==
  LET put == StorerPut(st, o.addr, data, o.valid)
  IN [err |-> put.err, addr |-> o.addr, store |-> put.store]

\* storeFileData: the file itself is not stored
storeFileData == [err |-> "nil", addr |-> <<0>>]

\* json.Marshal of entry.Metadata: {file name, mime type}
MetadataBytes(fileName, mimeType) ==
  <<123>> \o fileName \o <<44>> \o mimeType \o <<125>>

\* storeMetaData: the serialised metadata goes through the splitter
storeMetaData(st, fileName, mimeType, o) ==
  Split(st, MetadataBytes(fileName, mimeType), o)

\* entry.Entry.MarshalBinary: the file reference, then the metadata reference
MarshalBinary(fr, mr) == fr \o mr

\* storeEntry: the serialised entry goes through the splitter
storeEntry(st, fr, mr, o) == Split(st, MarshalBinary(fr, mr), o)

\* jsonhttp writes a response: the first status written is the one sent,
\* every body written is sent; addr is the address of a FileUploadResponse
Respond(u, code, addr) ==
  [u EXCEPT !.code = IF @ = 0 THEN code ELSE @, !.body = @ \o addr]

\* the handler returns: the client has its answer.  A handler that has
\* written nothing answers 200.
UploadReturns(c, u) ==
  /\ resp' = [handler |-> "bzzFileUploadHandler", method |-> "POST",
              path |-> << >>, code |-> IF u.code = 0 THEN 200 ELSE u.code,
              body |-> u.body]
  /\ upload' = [upload EXCEPT ![c] = NoUpload]

\* Split has returned r for data: the Storer holds the chunk, or does not
Uploaded(r, data) ==
  /\ store' = r.store
  /\ posted' = IF r.err = "nil" THEN [posted EXCEPT ![r.addr] = data]
               ELSE posted

\* the upload of a file begins: multipart says whether the Content-Type of
\* the request is multipart/form-data
bzzFileUploadHandler(c, multipart) ==
  /\ upload[c] = NoUpload
  /\ IF ~multipart THEN UploadReturns(c, Respond(NoUpload, 400, << >>))
     ELSE /\ upload' = [upload EXCEPT ![c] = [NoUpload EXCEPT !.at = "NextPart"]]
          /\ UNCHANGED resp
  /\ UNCHANGED <<kadVars, tpc, conns, store, posted, unmarshalVars, failed,
                 polls>>

\* the loop of bzzFileUploadHandler from mr.NextPart() to the return of
\* storeMetaData: part is what the multipart body yields, o what Split meets
uploadNextPart(c, part, o) ==
  LET u == upload[c]
      fileName == IF part.fileName = << >> THEN part.formName
                  ELSE part.fileName
      fr == storeFileData
      contentType == IF part.contentType = << >> THEN part.detect
                     ELSE part.contentType
      mr == storeMetaData(store, fileName, contentType, o)
  IN /\ u.at = "NextPart"
     /\ part.next = "part" => u.parts < MaxParts
     /\ IF part.next = "EOF"
          THEN UploadReturns(c, u) /\ UNCHANGED <<store, posted>>
        ELSE IF part.next = "error"
          THEN /\ UploadReturns(c, Respond(u, 400, << >>))
               /\ UNCHANGED <<store, posted>>
        ELSE IF fr.err # "nil"
                  \/ (part.contentType = << >> /\ part.detect = << >>)
          THEN /\ UploadReturns(c, Respond(u, 500, << >>))
               /\ UNCHANGED <<store, posted>>
        ELSE /\ Uploaded(mr, MetadataBytes(fileName, contentType))
             /\ IF mr.err # "nil"
                  THEN UploadReturns(c, Respond(u, 500, << >>))
                  ELSE /\ upload' = [upload EXCEPT ![c] =
                                       [u EXCEPT !.at = "storeEntry",
                                                 !.mr = mr.addr]]
                       /\ UNCHANGED resp
     /\ UNCHANGED <<kadVars, tpc, conns, unmarshalVars, failed, polls>>

\* the loop of bzzFileUploadHandler from storeEntry to jsonhttp.OK: o is what
\* Split meets
uploadStoreEntry(c, o) ==
  LET u == upload[c]
      fr == storeFileData
      en == storeEntry(store, fr.addr, u.mr, o)
  IN /\ u.at = "storeEntry"
     /\ Uploaded(en, MarshalBinary(fr.addr, u.mr))
     /\ IF en.err # "nil"
          THEN UploadReturns(c, Respond(u, 500, << >>))
          ELSE /\ upload' = [upload EXCEPT ![c] =
                               [Respond(u, 200, en.addr) EXCEPT
                                  !.at = "NextPart", !.parts = @ + 1,
                                  !.mr = << >>]]
               /\ UNCHANGED resp
     /\ UNCHANGED <<kadVars, tpc, conns, unmarshalVars, failed, polls>>

\* any requests, valid and invalid, each served by a goroutine of its own;
\* a handler that reaches the Storer once is one step
ApiNext ==
  \/ \E path \in Paths, data \in Bodies, readOk \in BOOLEAN, valid \in BOOLEAN :
       chunkUploadHandler(path, readOk, data, valid)
  \/ \E path \in Paths : chunkGetHandler(path)
  \/ \E c \in Uploaders, multipart \in BOOLEAN : bzzFileUploadHandler(c, multipart)
  \/ \E c \in Uploaders, part \in FileParts, o \in SplitOutcomes :
       uploadNextPart(c, part, o)
  \/ \E c \in Uploaders, o \in SplitOutcomes : uploadStoreEntry(c, o)

ApiSpec == Init /\ [][ApiNext]_vars

(* ---------------------------------------------------------------------- *)
(* TestUnmarshal: for each test case, setup builds the struct with its     *)
(* zero value, then UnmarshalMuxVars or UnmarshalURLValues fills it.       *)
(* ---------------------------------------------------------------------- *)
\* tc.setup(): &t{}, the field is false, or nil for a *bool
TestUnmarshalSetup(c) ==
  /\ tcase = NoCase
  /\ tcase' = c
  /\ Bool' = IF c.ptr THEN "nil" ELSE "false"
  /\ ret' = Pending
  /\ UNCHANGED <<kadVars, tpc, conns, store, posted, resp, upload, failed, polls>>

\* httputil.UnmarshalMuxVars(tc.vars, v): vars maps "Bool" to the text
UnmarshalBoolMuxVars ==
  /\ tcase.fn = "MuxVars" /\ ret = Pending
  /\ LET r == UnmarshalField(tcase.ptr, Bool, tcase.present, <<tcase.s>>)
     IN Bool' = r.v /\ ret' = r.err
  /\ UNCHANGED <<kadVars, tpc, conns, store, posted, resp, upload, tcase, failed,
                 polls>>

\* httputil.UnmarshalURLValues(tc.vals, v): vals maps "Bool" to the list of
\* the one text
UnmarshalBoolURLValues ==
  /\ tcase.fn = "URLValues" /\ ret = Pending
  /\ LET r == UnmarshalField(tcase.ptr, Bool, tcase.present, <<tcase.s>>)
     IN Bool' = r.v /\ ret' = r.err
  /\ UNCHANGED <<kadVars, tpc, conns, store, posted, resp, upload, tcase, failed,
                 polls>>

\* the subtest is over; the loop goes to the next test case
TestUnmarshalNext ==
  /\ tcase # NoCase /\ ret # Pending
  /\ tcase' = NoCase
  /\ Bool' = "nil"
  /\ ret' = Pending
  /\ UNCHANGED <<kadVars, tpc, conns, store, posted, resp, upload, failed, polls>>

UnmarshalNext ==
  \/ \E c \in TestCases : TestUnmarshalSetup(c)
  \/ UnmarshalBoolMuxVars
  \/ UnmarshalBoolURLValues
  \/ TestUnmarshalNext

UnmarshalSpec == Init /\ [][UnmarshalNext]_vars

(* ---------------------------------------------------------------------- *)
(* Vocabulary of the properties                                            *)
(* ---------------------------------------------------------------------- *)
LockFree == mtx = "free"

Size(b) == Len(connectedPeers[b])

ConnectedCount == PSliceLength(connectedPeers)

BinCounts == [b \in Bins |-> Size(b)]

\* the number of connected peers in bins b and deeper
RECURSIVE CountFrom(_)
CountFrom(b) == IF b >= maxBins THEN 0 ELSE Size(b) + CountFrom(b + 1)

\* h is empty, some deeper bin is occupied and every shallower bin is occupied
IsShallowestHole(h) ==
  /\ Size(h) = 0
  /\ \E b \in Bins : b > h /\ Size(b) > 0
  /\ \A b \in Bins : b < h => Size(b) > 0

NoHole == \A h \in Bins : ~IsShallowestHole(h)

\* one peer in each of the bins 0..i and the two peers of bin 8
GoldenShallow(i) ==
  [b \in Bins |-> IF b = 8 THEN 2 ELSE IF b <= i THEN 1 ELSE 0]

(* ---------------------------------------------------------------------- *)
(* C1: whenever the lock is free and at most nnLowWatermark peers are      *)
(* connected, NeighborhoodDepth() returns 0; this covers the empty set and *)
(* the set made of the two peers of bin 8.                                 *)
(* ---------------------------------------------------------------------- *)
C1_DepthZeroUpToWatermark ==
  (LockFree /\ ConnectedCount <= nnLowWatermark) => NeighborhoodDepth = 0

\* the two peers of bin 8 are the connected set, after a third peer was known
C1_Witness ==
  /\ LockFree
  /\ Size(8) = 2 /\ ConnectedCount = 2
  /\ PSliceLength(knownPeers) > 2
  /\ NeighborhoodDepth = 0

(* ---------------------------------------------------------------------- *)
(* C2: with more than nnLowWatermark peers connected, h the shallowest     *)
(* empty bin below the deepest occupied bin and at least nnLowWatermark    *)
(* peers in bins deeper than h, the depth is h.  Instances: bins           *)
(* {0:1, 1:1, 8:2} give depth 2, and with one more peer in each of the     *)
(* bins 2..i, for i = 2..6, the depth is i+1.                              *)
(* ---------------------------------------------------------------------- *)
C2_DepthIsShallowestHole ==
  LockFree =>
    /\ \A h \in Bins :
         (/\ ConnectedCount > nnLowWatermark
          /\ IsShallowestHole(h)
          /\ CountFrom(h + 1) >= nnLowWatermark) => depth = h
    /\ \A i \in 1 .. 6 : BinCounts = GoldenShallow(i) => depth = i + 1

C2_Witness ==
  /\ LockFree
  /\ BinCounts = GoldenShallow(6)
  /\ depth = 7

(* ---------------------------------------------------------------------- *)
(* C3: with more than nnLowWatermark peers connected and no empty bin      *)
(* below the deepest occupied one, the depth is the deepest bin b such     *)
(* that the bins b and deeper hold at least nnLowWatermark peers.          *)
(* Instances: bins 0..7 with one peer each and bin 8 with two give 8; one  *)
(* more peer at bin 9 leaves 8; one more in each of 10..i gives i-1.       *)
(* ---------------------------------------------------------------------- *)
C3_DepthWithoutHole ==
  LockFree =>
    /\ (ConnectedCount > nnLowWatermark /\ NoHole) =>
         /\ CountFrom(depth) >= nnLowWatermark
         /\ \A b \in Bins : b > depth => CountFrom(b) < nnLowWatermark
    /\ BinCounts = GoldenShallow(7) => depth = 8
    /\ BinCounts = GoldenShallow(9) => depth = 8
    /\ \A i \in 10 .. (maxBins - 1) : BinCounts = GoldenShallow(i) => depth = i - 1

C3_Witness ==
  /\ LockFree
  /\ BinCounts = GoldenShallow(maxBins - 1)
  /\ depth = maxBins - 2

(* ---------------------------------------------------------------------- *)
(* C4: with every bin 0..14 occupied, a second connected peer at bin 15    *)
(* (maxBins-1) makes the depth 15, and when Remove of a peer of bin 15     *)
(* returns leaving one peer there, NeighborhoodDepth() is 14.              *)
(* ---------------------------------------------------------------------- *)
AllShallowerOccupied == \A b \in 0 .. (maxBins - 2) : Size(b) >= 1

C4_LastBin ==
  [][/\ (LockFree' /\ AllShallowerOccupied' /\ Size(maxBins - 1)' = 2)
          => depth' = maxBins - 1
     /\ (/\ call.op = "Remove" /\ call.at = "locked" /\ call'.at = "posting"
         /\ Proximity(Base, call.addr) = maxBins - 1
         /\ AllShallowerOccupied
         /\ Size(maxBins - 1) = 2 /\ Size(maxBins - 1)' = 1)
          => depth' = maxBins - 2
     /\ (/\ call.op = "Remove" /\ call' = Idle
         /\ Proximity(Base, call.addr) = maxBins - 1
         /\ AllShallowerOccupied
         /\ Size(maxBins - 1) = 1)
          => (LockFree' /\ NeighborhoodDepth' = maxBins - 2)]_vars

\* Remove of the second peer of bin 15 has just returned
C4_Witness ==
  /\ LockFree /\ call = Idle
  /\ Running(Script) /\ Script[tpc] = <<"kDepth", 14>>
  /\ AllShallowerOccupied
  /\ Size(maxBins - 1) = 1
  /\ ~PSliceExists(connectedPeers, TestAddr(18))
  /\ NeighborhoodDepth = maxBins - 2

(* ---------------------------------------------------------------------- *)
(* C5 as stated: when Remove takes out the only connected peer of bin 1    *)
(* while bin 0 and some bin deeper than 1 hold connected peers and more    *)
(* than nnLowWatermark peers remain connected, the depth is 1 afterwards.  *)
(* ---------------------------------------------------------------------- *)
RemovesSoleOfBinOne ==
  /\ call.op = "Remove" /\ call.at = "locked" /\ call'.at = "posting"
  /\ connectedPeers[1] = <<call.addr>>
  /\ Size(0) >= 1
  /\ CountFrom(2) >= 1
  /\ ConnectedCount - 1 > nnLowWatermark

C5_RemoveSoleOfBinOne_Original ==
  [][RemovesSoleOfBinOne => depth' = 1]_vars

(* ---------------------------------------------------------------------- *)
(* C5 as amended: when Remove takes out the only connected peer of bin 1   *)
(* while bin 0 holds a connected peer and at least nnLowWatermark          *)
(* connected peers lie in bins deeper than 1, the depth is 1 afterwards.   *)
(* ---------------------------------------------------------------------- *)
C5_RemoveSoleOfBinOne ==
  [][(RemovesSoleOfBinOne /\ CountFrom(2) >= nnLowWatermark)
       => (depth' = 1 /\ Size(1)' = 0)]_vars

\* Remove holds the lock for the only peer of bin 1, two peers are deeper
C5_Witness ==
  /\ call.op = "Remove" /\ call.at = "locked"
  /\ connectedPeers[1] = <<call.addr>>
  /\ Size(0) >= 1
  /\ CountFrom(2) >= nnLowWatermark
  /\ depth = 2

(* ---------------------------------------------------------------------- *)
(* C6: a peer enters the connected set only in the step in which manage,   *)
(* after Connect for that peer returned without error, records it; no      *)
(* other step (AddPeer, Remove, Disconnected, a failed dial, a failed      *)
(* resolution) adds a peer to the connected set.                           *)
(* ---------------------------------------------------------------------- *)
C6_ConnectedOnlyAfterDial ==
  [][\A p \in Peers :
       (~PSliceExists(connectedPeers, p) /\ PSliceExists(connectedPeers', p))
         => /\ pc = "returned" /\ err = "nil"
            /\ trav # << >> /\ Head(trav)[1] = p
            /\ pc' = "added"]_vars

\* manage has just recorded a second peer, with more peers left to visit
C6_Witness ==
  /\ pc = "added"
  /\ ConnectedCount = 2
  /\ Len(trav) >= 2
  /\ PSliceExists(connectedPeers, Head(trav)[1])

(* ---------------------------------------------------------------------- *)
(* C7: AddPeer of an address that is already in the known or in the        *)
(* connected set does not terminate the process (it returns an error).     *)
(* ---------------------------------------------------------------------- *)
C7_DuplicateAddPeerDoesNotTerminate == fault # "peer already connected"

(* ---------------------------------------------------------------------- *)
(* C8: when Disconnected(addr) or Remove(addr) returns, addr is not in the *)
(* connected set, every other peer is connected as before, the depth is    *)
(* the depth algorithm applied to the resulting set, the known set is      *)
(* unchanged and, unless the manager is closed, a wake-up is pending; if   *)
(* addr was not connected, the connected set and the depth are unchanged.  *)
(* ---------------------------------------------------------------------- *)
\* op, under the lock, removes the peer and recalculates the depth
TakesOut(op) ==
  /\ call.op = op /\ call.at = "locked" /\ call'.at = "posting"
  /\ fault' = "none"

\* op posts the wake-up, releases the lock and returns
Returns(op) ==
  /\ call.op = op /\ call' = Idle
  /\ fault' = "none"

TakenOut(addr) ==
  /\ ~PSliceExists(connectedPeers', addr)
  /\ \A p \in Peers \ {addr} :
       PSliceExists(connectedPeers', p) <=> PSliceExists(connectedPeers, p)
  /\ depth' = recalcDepth(connectedPeers')
  /\ knownPeers' = knownPeers
  /\ ~PSliceExists(connectedPeers, addr)
       => (connectedPeers' = connectedPeers /\ depth' = depth)

\* at the return nothing of the sets has changed since the removal
Returned(addr) ==
  /\ ~PSliceExists(connectedPeers', addr)
  /\ connectedPeers' = connectedPeers
  /\ depth' = depth /\ depth' = recalcDepth(connectedPeers')
  /\ knownPeers' = knownPeers
  /\ ~quit => manageC' = 1
  /\ LockFree'

C8_DisconnectedAndRemove ==
  [][/\ TakesOut("Remove") => TakenOut(call.addr)
     /\ TakesOut("Disconnected") => TakenOut(call.addr)
     /\ Returns("Remove") => Returned(call.addr)
     /\ Returns("Disconnected") => Returned(call.addr)]_vars

\* Disconnected holds the lock for a connected peer whose removal changes depth
C8_Witness ==
  /\ call.op = "Disconnected" /\ call.at = "locked"
  /\ PSliceExists(connectedPeers, call.addr)
  /\ depth > 0
  /\ ConnectedCount = nnLowWatermark + 1

(* ---------------------------------------------------------------------- *)
(* C9: round trip.  With p connected and the depth d (here 1), Remove(p)   *)
(* followed by AddPeer(p) succeeds, and once the reconciliation has run    *)
(* and the manager is idle with no wake-up pending the depth is d again.   *)
(* A run of the script in which a helper has timed out has not made the    *)
(* round trip and is not judged.                                           *)
(* ---------------------------------------------------------------------- *)
C9_RoundTrip ==
  /\ fault = "none"
  /\ (/\ ~failed /\ tpc > 7 /\ call = Idle
      /\ pc = "select" /\ manageC = 0) => depth = 1

(* ---------------------------------------------------------------------- *)
(* C10: recording a newly connected peer never makes the depth smaller,    *)
(* and taking a peer out with Remove or Disconnected never makes it        *)
(* larger.                                                                 *)
(* ---------------------------------------------------------------------- *)
C10_DepthMonotone ==
  [][/\ (pc = "added" /\ pc' = "signal") => depth' >= depth
     /\ (call.op \in {"Remove", "Disconnected"} /\ call' # call)
          => depth' <= depth]_vars

\* a peer has just been recorded and the depth is about to grow beyond 1
C10_Witness ==
  /\ pc = "added"
  /\ depth >= 1
  /\ recalcDepth(connectedPeers) > depth

(* ---------------------------------------------------------------------- *)
(* C11: Close() does not return before the manage loop has exited: in      *)
(* every state where a call of Close has returned (quit is closed), the    *)
(* manage goroutine has terminated.                                        *)
(* ---------------------------------------------------------------------- *)
C11_CloseWaitsForManage == quit => pc = "exited"

(* ---------------------------------------------------------------------- *)
(* C12: after Close() has returned, a call of AddPeer, Disconnected or     *)
(* Remove fails with a Closed condition: when it returns, the known set,   *)
(* the connected set and the depth are as they were.                       *)
(* ---------------------------------------------------------------------- *)
Mutating == {"AddPeer", "Disconnected", "Remove"}

C12_MutatingAfterCloseFails ==
  [][(quit /\ call.op \in Mutating /\ call' # call)
       => UNCHANGED <<knownPeers, connectedPeers, depth>>]_vars

(* ---------------------------------------------------------------------- *)
(* C13: ClosestPeer(addr) returns to its caller, with the connected peer   *)
(* closest to addr or with a NotFound error when no peer is connected; it  *)
(* never ends the process.                                                 *)
(* ---------------------------------------------------------------------- *)
C13_ClosestPeerReturns == fault # "not implemented"

(* ---------------------------------------------------------------------- *)
(* C14: the wake-up signal is a single slot.  At most one wake-up is       *)
(* pending; AddPeer, Disconnected and Remove can always finish (the post   *)
(* does not block them), a post to a full slot leaves the one wake-up      *)
(* pending and, unless the manager is closed, a wake-up is pending after   *)
(* the post; a pass starts only by consuming the pending wake-up, which    *)
(* empties the slot, so the calls made while no pass runs start one pass.  *)
(* ---------------------------------------------------------------------- *)
Posts == call.op \in Mutating /\ call' = Idle

\* manage takes the wake-up out of the slot
WakeUpTaken == pc # "woken" /\ pc' = "woken"

\* a pass starts: manage, which was not in a pass, is at its first peer
PassStarts == pc \in {"select", "woken", "exited"} /\ pc' = "visit"

C14_SingleSlot ==
  /\ []((call.op \in Mutating /\ Alive)
          => ENABLED (AddPeerAdd \/ AddPeerReturn \/ AddPeerPanic
                        \/ RemoveTakeOut \/ RemoveReturn
                        \/ DisconnectedTakeOut \/ DisconnectedReturn))
  /\ [][/\ manageC' \in {0, 1}
        /\ Posts => /\ manageC = 1 => manageC' = 1
                    /\ ~quit => manageC' = 1
        /\ WakeUpTaken => (pc = "select" /\ manageC = 1 /\ manageC' = 0)
        /\ PassStarts => pc = "woken"]_vars

\* a second caller is about to post while a wake-up is pending and no pass runs
C14_Witness ==
  /\ manageC = 1 /\ pc = "select"
  /\ call.op = "Remove" /\ call.at = "posting"
  /\ PSliceLength(knownPeers) >= 2

(* ---------------------------------------------------------------------- *)
(* C15: no deadlock under any interleaving of AddPeer, Disconnected,       *)
(* Remove and NeighborhoodDepth callers with manage.  As long as the       *)
(* process runs (a panic ends it as a whole, it leaves no goroutine        *)
(* waiting), every call that has taken k.mtx releases it and returns, and  *)
(* manage, wherever it is in a pass (waiting for k.mtx or for Connect      *)
(* included), gets back to the select where it waits for a wake-up or for  *)
(* quit, or exits: the select is the only place where it stays.            *)
(* ---------------------------------------------------------------------- *)
ManageIdle == pc \in {"select", "exited"}

C15_NoDeadlock ==
  /\ [](call # Idle => <>((call = Idle /\ mtx # "caller") \/ ~Alive))
  /\ [](~ManageIdle => <>(ManageIdle \/ ~Alive))
  /\ [](mtx = "manage" => <>(mtx # "manage" \/ ~Alive))

\* manage waits for k.mtx, which a caller holds, while a wake-up is pending
C15_Witness ==
  /\ pc = "returned" /\ err = "nil"
  /\ mtx = "caller" /\ call.op \in Mutating
  /\ manageC = 1

(* ---------------------------------------------------------------------- *)
(* C16: every read and every mutation of the known set, the connected set  *)
(* and the depth happens under k.mtx, the reads of a reconciliation pass   *)
(* included: manage is never at the point where it checks the visited      *)
(* peer against the connected set and reads the depth for binSaturated     *)
(* unless it holds the lock, so never while a caller holds the lock inside *)
(* Remove or Disconnected, which write the connected set and the depth.    *)
(* ---------------------------------------------------------------------- *)
ManageReads == pc = "visit" /\ trav # << >>

CallerWrites == mtx = "caller" /\ call.op \in {"Remove", "Disconnected"}

C16_AccessUnderLock ==
  /\ ManageReads => mtx = "manage"
  /\ ~(ManageReads /\ CallerWrites)

(* ---------------------------------------------------------------------- *)
(* C17: manage never holds k.mtx while a call of Connect is in progress.   *)
(* During the dial the lock is free or held by a caller: a caller that is  *)
(* not inside an operation can take the lock, one that is inside can       *)
(* finish; manage holds the lock only after Connect returned, to record    *)
(* the peer.                                                               *)
(* ---------------------------------------------------------------------- *)
Dialing == pc = "dialing"

C17_NoLockAcrossDial ==
  /\ Dialing => mtx # "manage"
  /\ (Dialing /\ Alive) =>
       IF call = Idle THEN CanEnter
       ELSE ENABLED (AddPeerAdd \/ AddPeerReturn \/ AddPeerPanic
                       \/ RemoveTakeOut \/ RemoveReturn
                       \/ DisconnectedTakeOut \/ DisconnectedReturn
                       \/ NeighborhoodDepthReturn)
  /\ mtx = "manage" => pc = "added"

\* Disconnected of a connected peer holds the lock while manage dials another
C17_Witness ==
  /\ Dialing
  /\ mtx = "caller" /\ call.op = "Disconnected"
  /\ PSliceExists(connectedPeers, call.addr)
  /\ Head(trav)[1] # call.addr

(* ---------------------------------------------------------------------- *)
(* C18: saturation policy.  binSaturated(bin, depth) is false for every    *)
(* bin at or deeper than depth and, for a bin shallower than depth, true   *)
(* exactly when the bin holds at least val = 2 connected peers (so that a  *)
(* pass does not dial a known peer of such a bin).                         *)
(* ---------------------------------------------------------------------- *)
val == 2

C18_SaturationPolicy ==
  \A b \in Bins :
    binSaturated(b, depth) = (b < depth /\ Size(b) >= val)

(* ---------------------------------------------------------------------- *)
(* C19: when AddPeer(addr) returns for an address that was in neither set, *)
(* addr is in the known set at bin Proximity(base, addr) and nothing else  *)
(* of the known set has changed, the connected set and the depth are       *)
(* unchanged, a wake-up is pending (unless the manager is closed), the     *)
(* lock is released and the call has returned nil (no fault).              *)
(* ---------------------------------------------------------------------- *)
BinSet(ps, b) == {ps[b][i] : i \in 1 .. Len(ps[b])}

AddedAt(addr, po) ==
  \A b \in Bins :
    /\ BinSet(knownPeers', b) =
         BinSet(knownPeers, b) \cup (IF b = po THEN {addr} ELSE {})
    /\ Len(knownPeers'[b]) = Len(knownPeers[b]) + (IF b = po THEN 1 ELSE 0)

C19_AddPeerFrame ==
  [][/\ (/\ call.op = "AddPeer" /\ ~AlreadyExists(call.addr)
         /\ call.at = "locked" /\ call'.at = "posting")
          => /\ AddedAt(call.addr, Proximity(Base, call.addr))
             /\ connectedPeers' = connectedPeers
             /\ depth' = depth
             /\ fault' = "none"
     /\ (call.op = "AddPeer" /\ call' = Idle)
          => /\ call.addr \in BinSet(knownPeers', Proximity(Base, call.addr))
             /\ knownPeers' = knownPeers
             /\ connectedPeers' = connectedPeers
             /\ depth' = depth
             /\ manageC' = 1 \/ quit
             /\ LockFree'
             /\ fault' = "none"]_vars

\* AddPeer holds the lock for a new address, with peers connected and depth > 0
C19_Witness ==
  /\ call.op = "AddPeer" /\ ~AlreadyExists(call.addr)
  /\ Proximity(Base, call.addr) > 0
  /\ depth > 0
  /\ manageC = 0

(* ---------------------------------------------------------------------- *)
(* C20: chunk round trip over the HTTP API.  Once POST /bzz-chunk/{addr}   *)
(* with body d has answered 200, a GET /bzz-chunk/{addr}, after any        *)
(* sequence of requests in which no upload has stored a chunk under that   *)
(* address since, answers 200 with the body d, byte for byte.  An upload   *)
(* is a POST /bzz-chunk/{addr} or a file upload one of whose chunks the    *)
(* splitter stores under addr, whether it has answered or not; posted      *)
(* keeps the data of the last one.                                         *)
(* ---------------------------------------------------------------------- *)
\* this step is a GET /bzz-chunk/{addr} for the address a
GetAnswers(a) ==
  /\ resp'.handler = "chunkGetHandler"
  /\ UnmarshalMuxVars(resp'.path).ok
  /\ UnmarshalMuxVars(resp'.path).bytes = a
  /\ UNCHANGED <<store, posted, upload>>

C20_ChunkRoundTrip ==
  [][\A a \in Addresses :
       (GetAnswers(a) /\ posted[a] # NoChunk)
         => (resp'.code = 200 /\ resp'.body = posted[a])]_vars

\* a chunk uploaded at ab is fetched by the path Ab, while a file upload is
\* under way that has stored its metadata at aa and not yet its entry
C20_Witness ==
  /\ resp.method = "GET" /\ resp.path = <<"A", "b">>
  /\ resp.code = 200 /\ resp.body = <<98, 98>>
  /\ posted[UnmarshalMuxVars(resource(<<171>>)).bytes] = <<98, 98>>
  /\ upload[1].at = "storeEntry" /\ upload[1].mr = <<170>>
  /\ store[<<170>>] = MetadataBytes(<<102>>, <<116>>)

(* ---------------------------------------------------------------------- *)
(* C21: UnmarshalMuxVars and UnmarshalURLValues set a bool or *bool field  *)
(* to true for the texts "", "1", "true", "on" and to false for "0",       *)
(* "false", "off", whatever the case of the letters, and for every other   *)
(* text return a FieldError that names the field.                          *)
(* ---------------------------------------------------------------------- *)
\* s is the word w, letter by letter, in upper or lower case
EqualFold(s, w) ==
  /\ Len(s) = Len(w)
  /\ \A i \in 1 .. Len(w) :
       s[i] = w[i] \/ (w[i] \in DOMAIN UpperOf /\ s[i] = UpperOf[w[i]])

MeansTrue(s) ==
  \E w \in {<< >>, <<"1">>, WordTrue, WordOn} : EqualFold(s, w)

MeansFalse(s) ==
  \E w \in {<<"0">>, WordFalse, WordOff} : EqualFold(s, w)

C21_BoolParsing ==
  (tcase # NoCase /\ tcase.present /\ ret # Pending) =>
    IF MeansTrue(tcase.s) THEN ret = NoError /\ Bool = "true"
    ELSE IF MeansFalse(tcase.s) THEN ret = NoError /\ Bool = "false"
    ELSE ret.Name = "Bool" /\ ret.Err = "invalid value"

\* UnmarshalURLValues has filled a *bool from the text "fAlSe"
C21_Witness ==
  /\ tcase.fn = "URLValues" /\ tcase.ptr /\ tcase.present
  /\ tcase.s = <<"f", "A", "l", "S", "e">>
  /\ ret = NoError
  /\ Bool = "false"

(* ---------------------------------------------------------------------- *)
(* C22: with more than W connected peers recalcDepth finds candidate by    *)
(* scanning the connected bins with a running peer count, candidate is the *)
(* bin at which the count first reaches W = 2, and the scan stops there.   *)
(* As claimed the scan goes from the shallowest bin to the deepest         *)
(* (C22_ScanShallowFirst); the scan of the code goes from the deepest bin  *)
(* to the shallowest (C22_ScanDeepFirst).                                  *)
(* ---------------------------------------------------------------------- *)
\* the candidate that recalcDepth computes for the connected peers
recalcCandidate == ScanCandidate(EachBin(connectedPeers), 0, 0)

RECURSIVE CountUpTo(_)
CountUpTo(b) == IF b < 0 THEN 0 ELSE Size(b) + CountUpTo(b - 1)

\* b is where a count running from bin 0 upwards first reaches W
FirstReachedAscending(b) ==
  CountUpTo(b) >= nnLowWatermark /\ CountUpTo(b - 1) < nnLowWatermark

\* b is where a count running from the deepest bin downwards first reaches W
FirstReachedDescending(b) ==
  CountFrom(b) >= nnLowWatermark /\ CountFrom(b + 1) < nnLowWatermark

C22_ScanShallowFirst ==
  ConnectedCount > nnLowWatermark => FirstReachedAscending(recalcCandidate)

C22_ScanDeepFirst ==
  ConnectedCount > nnLowWatermark => FirstReachedDescending(recalcCandidate)

\* the two directions give different bins and the depth is the deep one
C22_Witness ==
  /\ LockFree
  /\ ConnectedCount > nnLowWatermark
  /\ ~FirstReachedAscending(recalcCandidate)
  /\ depth = recalcCandidate
  /\ depth > 0

(* ---------------------------------------------------------------------- *)
(* C23: with more than W connected peers the depth is candidate when no    *)
(* bin shallower than the deepest occupied bin is empty, or when the       *)
(* shallowest such empty bin is strictly deeper than candidate; otherwise  *)
(* it is that empty bin: depth = min(candidate, shallowestEmpty), a        *)
(* missing hole counting as infinity.                                      *)
(* ---------------------------------------------------------------------- *)
MinOf(a, b) == IF a <= b THEN a ELSE b

C23_FinalDepth ==
  (LockFree /\ ConnectedCount > nnLowWatermark) =>
    /\ NoHole => depth = recalcCandidate
    /\ \A h \in Bins :
         IsShallowestHole(h) =>
           /\ h > recalcCandidate => depth = recalcCandidate
           /\ h <= recalcCandidate => depth = h
           /\ depth = MinOf(recalcCandidate, h)

\* a hole strictly deeper than candidate: the depth is candidate
C23_Witness ==
  /\ LockFree
  /\ ConnectedCount > nnLowWatermark
  /\ \E h \in Bins : IsShallowestHole(h) /\ h > recalcCandidate
  /\ depth = recalcCandidate

\* a hole shallower than candidate: the depth is the hole
C23_WitnessHole ==
  /\ LockFree
  /\ ConnectedCount > nnLowWatermark
  /\ \E h \in Bins : IsShallowestHole(h) /\ h < recalcCandidate /\ depth = h

(* ---------------------------------------------------------------------- *)
(* C24: after a successful dial the peer is recorded, the depth is         *)
(* recomputed, a wake-up is posted, and the same pass goes on with the     *)
(* next known peer; a pass ends only when its traversal is exhausted.      *)
(* ---------------------------------------------------------------------- *)
C24_PassContinuesAfterDial ==
  [][/\ (pc = "signal" /\ pc' # "signal") =>
          (pc' = "visit" /\ trav' = Tail(trav))
     /\ (pc # "select" /\ pc' = "select") => (pc = "visit" /\ trav = << >>)
    ]_vars

(* ---------------------------------------------------------------------- *)
(* C25: a failure of the address resolver for one peer ends neither the    *)
(* pass, nor the background task, nor the process: the peer is skipped.    *)
(* ---------------------------------------------------------------------- *)
C25_ResolverFailureNotFatal == fault # "err"

(* ---------------------------------------------------------------------- *)
(* C26: when Connect fails for a peer, the pass goes on with the next      *)
(* known peer, the connected set and the depth are unchanged, no wake-up   *)
(* is posted for the failure, and the peer stays known and not connected,  *)
(* so that a later pass dials it again.                                    *)
(* ---------------------------------------------------------------------- *)
\* manage handles the error that Connect returned
HandlesDialFailure == pc = "returned" /\ err # "nil" /\ pc' # "returned"

C26_DialFailureContinues ==
  [][HandlesDialFailure =>
       /\ pc' = "visit"
       /\ trav' = Tail(trav)
       /\ connectedPeers' = connectedPeers
       /\ depth' = depth
       /\ manageC' = manageC
       /\ knownPeers' = knownPeers
       /\ PSliceExists(knownPeers', Head(trav)[1])
       /\ ~PSliceExists(connectedPeers', Head(trav)[1])
       /\ fault' = fault
    ]_vars

\* the dial of the first of two known peers has failed and the pass is at the
\* second: nobody is connected, Close was not called, no wake-up is pending
\* and no caller is inside,
\* so the traversal is one peer short only because of the failed dial
C26_Witness ==
  /\ Alive /\ ~quit /\ pc = "visit"
  /\ Len(trav) = 1
  /\ PSliceLength(knownPeers) = 2
  /\ PSliceExists(knownPeers, Head(trav)[1])
  /\ ConnectedCount = 0
  /\ manageC = 0
  /\ call = Idle

(* ---------------------------------------------------------------------- *)
(* C27: a pass never resolves or dials a peer that is connected, whatever  *)
(* the interleaving with the public operations.                            *)
(* ---------------------------------------------------------------------- *)
C27_NoDialOfConnected ==
  pc \in {"dialing", "returned"} =>
    ~PSliceExists(connectedPeers, Head(trav)[1])

\* a pass has gone past a connected peer and is dialing a deeper one
C27_Witness ==
  /\ pc = "dialing"
  /\ \E b \in Bins : b < Head(trav)[2] /\ Size(b) > 0
  /\ ~PSliceExists(connectedPeers, Head(trav)[1])

(* ---------------------------------------------------------------------- *)
(* C28: after Close the background task exits: at once when it is idle at  *)
(* its select, and otherwise once the dial in flight has returned, under a *)
(* fair select.                                                            *)
(* ---------------------------------------------------------------------- *)
C28_CloseStopsManage == quit ~> (pc = "exited" \/ ~Alive)

\* Close was called while a dial is in flight
C28_Witness == quit /\ pc = "dialing" /\ Alive

\* the task has exited after a Close
C28_WitnessExited == quit /\ pc = "exited" /\ Alive

(* ---------------------------------------------------------------------- *)
(* C29: when Close is called before a Connect in flight returns, the       *)
(* result of a successful Connect is discarded: the peer is not added to   *)
(* the connected set and the depth is not recomputed.  pc = "added" is     *)
(* manage right after k.connectedPeers.Add, about to recompute the depth.  *)
(* ---------------------------------------------------------------------- *)
C29_LateDialDiscarded == []((quit /\ pc = "dialing") => [](pc # "added"))

(* ---------------------------------------------------------------------- *)
(* C30: the depth is never stale: whenever k.mtx is free, depth is the     *)
(* result of the depth algorithm on the current connected set.             *)
(* ---------------------------------------------------------------------- *)
C30_DepthNeverStale == LockFree => depth = recalcDepth(connectedPeers)

\* manage has recorded a peer, recomputed a depth above 0 and unlocked
C30_Witness ==
  /\ LockFree
  /\ pc = "signal"
  /\ depth > 0
  /\ depth = recalcDepth(connectedPeers)

(* ---------------------------------------------------------------------- *)
(* C31: an address occurs at most once in the known set and at most once   *)
(* in the connected set, in the bin of its proximity to the base, under    *)
(* every interleaving of AddPeer and the passes: Add is never called on a  *)
(* set for an address that is already in it.                               *)
(* ---------------------------------------------------------------------- *)
\* the bin of each address the callers use
BinOf == [a \in Peers |-> Proximity(Base, a)]

\* every address of the set s is filed under the bin of its proximity, hence
\* in no other bin, and at one position of that bin only
UniqueInBins(s) ==
  \A b \in Bins : \A i \in 1 .. Len(s[b]) :
    /\ s[b][i] \in Peers
    /\ BinOf[s[b][i]] = b
    /\ \A j \in 1 .. Len(s[b]) : s[b][j] = s[b][i] => j = i

C31_AddressOnce == UniqueInBins(knownPeers) /\ UniqueInBins(connectedPeers)

\* AddPeer is inside with an address that is in both sets, and the pass is
\* at a peer that is connected: both checks are about to refuse
C31_Witness ==
  /\ call.op = "AddPeer"
  /\ PSliceExists(knownPeers, call.addr)
  /\ PSliceExists(connectedPeers, call.addr)
  /\ pc = "visit" /\ trav # << >>
  /\ PSliceExists(connectedPeers, Head(trav)[1])
  /\ ConnectedCount >= 2

(* ---------------------------------------------------------------------- *)
(* C34: the known set only grows and always contains the connected set:    *)
(* no step takes an address out of the known set and every connected peer  *)
(* is known; so AddPeer succeeds at most once for an address.              *)
(* ---------------------------------------------------------------------- *)
ConnectedAreKnown ==
  \A b \in Bins : \A i \in 1 .. Len(connectedPeers[b]) :
    PSliceExists(knownPeers, connectedPeers[b][i])

KnownOnlyGrows ==
  \A b \in Bins : \A i \in 1 .. Len(knownPeers[b]) :
    PSliceExists(knownPeers', knownPeers[b][i])

\* AddPeer does not succeed for an address that is known
AddPeerOnce ==
  \A b \in Bins :
    Len(knownPeers'[b]) > Len(knownPeers[b]) =>
      /\ call.op = "AddPeer"
      /\ ~PSliceExists(knownPeers, call.addr)
      /\ knownPeers' = PSliceAdd(knownPeers, call.addr, b)

C34_KnownGrowsAndCoversConnected ==
  []ConnectedAreKnown /\ [][KnownOnlyGrows /\ AddPeerOnce]_vars

\* Remove is inside for a peer that is connected and known, with all the
\* peers connected: its return is the step that could forget the peer
C34_Witness ==
  /\ call.op = "Remove"
  /\ PSliceExists(connectedPeers, call.addr)
  /\ PSliceExists(knownPeers, call.addr)
  /\ ConnectedCount = PSliceLength(knownPeers)
  /\ ConnectedCount >= 2

(* ---------------------------------------------------------------------- *)
(* C35: whenever the lock is free, every bin strictly shallower than depth *)
(* holds a connected peer, and depth is not greater than the deepest       *)
(* occupied connected bin: depth <= maxBins - 1 = 15, and depth > 0 means  *)
(* that bin 0 is not empty.                                                *)
(* ---------------------------------------------------------------------- *)
C35_NoHoleBelowDepth ==
  LockFree =>
    /\ \A b \in Bins : b < depth => Size(b) > 0
    /\ ConnectedCount > 0 => \E b \in Bins : b >= depth /\ Size(b) > 0
    /\ ConnectedCount = 0 => depth = 0
    /\ depth <= maxBins - 1
    /\ depth > 0 => Size(0) > 0

\* the depth is the deepest occupied bin, two bins above bin 0
C35_Witness ==
  /\ LockFree
  /\ depth >= 2
  /\ Size(depth) > 0
  /\ \A b \in Bins : b > depth => Size(b) = 0

(* ---------------------------------------------------------------------- *)
(* C39: whenever the lock is free and more than W = 2 peers are connected, *)
(* at least W connected peers lie in the bins at or deeper than depth.     *)
(* ---------------------------------------------------------------------- *)
C39_NeighbourhoodPopulated ==
  (LockFree /\ ConnectedCount > nnLowWatermark) =>
    CountFrom(depth) >= nnLowWatermark

\* exactly W peers at or deeper than a depth above 0, others shallower
C39_Witness ==
  /\ LockFree
  /\ ConnectedCount > nnLowWatermark
  /\ depth > 0
  /\ CountFrom(depth) = nnLowWatermark

(* ---------------------------------------------------------------------- *)
(* C37: once Close has returned, the background task starts no new pass    *)
(* and calls Connect no more, even when a wake-up was pending at the Close *)
(* or is posted after it.                                                  *)
(* ---------------------------------------------------------------------- *)
\* manage takes a wake-up, which starts a pass
StartsPass == pc = "select" /\ pc' = "woken"

CallsConnect == pc # "dialing" /\ pc' = "dialing"

C37_ClosedIsTerminal == [][quit => (~StartsPass /\ ~CallsConnect)]_vars

(* ---------------------------------------------------------------------- *)
(* C38: Close is idempotent: a second call of Close returns nil, without a *)
(* fault and without a change of the state.                                *)
(* ---------------------------------------------------------------------- *)
\* no call of Close ends in the fault of closing a closed channel
C38_CloseIdempotent == fault # "close of closed channel"

(* ---------------------------------------------------------------------- *)
(* C36: a disconnect is not lost across the dial window: when Disconnected *)
(* of a peer is called after Connect has returned successfully for it and  *)
(* before the background task has recorded it, then, once both are done    *)
(* and no later dial of the peer has succeeded, the peer is not connected. *)
(* In the window script the connector has returned three times when        *)
(* Disconnected is called, once for each peer: a fourth return is a later  *)
(* dial of the peer.  A run in which a helper has timed out has not called *)
(* Disconnected and is not judged.                                         *)
(* ---------------------------------------------------------------------- *)
DisconnectedIsDone == ~failed /\ tpc > Len(WindowScript) /\ call = Idle

NoLaterDialSucceeded == conns = 3

C36_DisconnectNotLost ==
  (DisconnectedIsDone /\ NoLaterDialSucceeded /\ pc # "returned") =>
    ~PSliceExists(connectedPeers, TestAddr(1))

(* ---------------------------------------------------------------------- *)
(* C32: no wake-up is lost: with a manager that is never closed, a         *)
(* resolver and a connector that succeed, and finitely many calls of       *)
(* AddPeer, Remove and Disconnected in any interleaving with the           *)
(* background task, under fair scheduling every address passed to AddPeer  *)
(* is in the end connected and the task is back at its select with no      *)
(* wake-up pending.  An AddPeer of an address that is already known ends   *)
(* the process by a panic; such a run has no end state to speak of.        *)
(* ---------------------------------------------------------------------- *)
AllKnownConnected ==
  \A b \in Bins : \A i \in 1 .. Len(knownPeers[b]) :
    PSliceExists(connectedPeers, knownPeers[b][i])

Settled ==
  /\ AllKnownConnected
  /\ call = Idle
  /\ pc = "select" /\ manageC = 0

C32_NoLostWakeUp == <>[](Settled \/ ~Alive)

\* both peers were added, the calls are used up with a Remove or a
\* Disconnected among them, and everything has settled
C32_Witness ==
  /\ Settled /\ Alive
  /\ tpc > MaxCalls
  /\ ConnectedCount = MaxLivePeers

(* ---------------------------------------------------------------------- *)
(* C33: removal is not durable: Remove or Disconnected of a connected peer *)
(* leaves it known and posts a wake-up, so, with a resolver and a          *)
(* connector that succeed, a pass dials the peer again and it is in the    *)
(* end connected again, with the depth back at its value before the        *)
(* removal, without a call of AddPeer.                                     *)
(* ---------------------------------------------------------------------- *)
\* op is inside for the peer i of the test, which is connected, at depth 1
Removing(op, i) ==
  /\ call = [op |-> op, addr |-> TestAddr(i), at |-> "locked"]
  /\ PSliceExists(connectedPeers, TestAddr(i))
  /\ depth = 1

\* the peer i is connected again after n returns of the connector, at depth 1
Reconnected(i, n) ==
  /\ call = Idle /\ LockFree
  /\ PSliceExists(connectedPeers, TestAddr(i))
  /\ PSliceExists(knownPeers, TestAddr(i))
  /\ depth = 1
  /\ conns = n

C33_RemovalNotDurable ==
  /\ Removing("Remove", 1) ~> Reconnected(1, 4)
  /\ Removing("Disconnected", 3) ~> Reconnected(3, 5)

\* the peer was taken out by Disconnected, is still known, the depth has
\* dropped to 0 and the wake-up is pending
C33_Witness ==
  /\ tpc = 10 /\ call = Idle
  /\ ~PSliceExists(connectedPeers, TestAddr(3))
  /\ PSliceExists(knownPeers, TestAddr(3))
  /\ depth = 0
  /\ manageC = 1
  /\ conns = 4

====
